---- MODULE Spec2Model ----
(***************************************************************************)
(* Model of the resume-relevance scoring core of Siddhram/nighthack:       *)
(*   - EvaluationEngine (app/services/evaluation_engine.py), the "lenient" *)
(*     profile: skill normalizer, character-set fuzzy matching, Jaccard    *)
(*     text similarity, weighted relevance score, suitability tiers;       *)
(*   - InnomaticsHybridScoringEngine (app/services/hybrid_scoring_engine   *)
(*     .py), the "strict" profile: exact + token_set_ratio matching,       *)
(*     weighted hard score, soft score, fit verdict.                       *)
(*                                                                         *)
(* A Python str is a sequence of one-character strings.  A Python float    *)
(* computed by the engines is kept exact, as a fraction [n |-> , d |-> ]   *)
(* with d > 0.  Python's None is the model value None; a dict is a record. *)
(***************************************************************************)
EXTENDS Integers, Sequences, FiniteSets, TLC

VARIABLES
    engine,     \* the EvaluationEngine instance (fields set by __init__)
    hybrid,     \* the InnomaticsHybridScoringEngine instance
    op,         \* name of the last engine method that returned ("none" at start)
    args,       \* the caller's argument objects of that call
    ret,        \* the value the call returned
    first       \* the first evaluate call, as the caller remembers it: <<[args, ret]>>

vars == <<engine, hybrid, op, args, ret, first>>

\* Python's None: a value equal to no string, list or number of the model
None == <<"None">>

(***************************************************************************)
(* Bounds of the model.                                                    *)
(***************************************************************************)
MaxPad == 1          \* leading / trailing blanks around a raw skill
MaxStr == 3          \* length of an arbitrary raw string over SmallAlphabet
MaxCalls == 2        \* consecutive applications of normalize_skill
MaxRequired == 2     \* length of a job's required / must-have skill list
MaxPreferred == 1    \* length of a job's preferred / good-to-have skill list
MaxCandidate == 2    \* length of a resume's skill list

(***************************************************************************)
(* Strings.                                                                *)
(***************************************************************************)
UpperChars == <<"A","B","C","D","E","F","G","H","I","J","K","L","M",
                "N","O","P","Q","R","S","T","U","V","W","X","Y","Z">>
LowerChars == <<"a","b","c","d","e","f","g","h","i","j","k","l","m",
                "n","o","p","q","r","s","t","u","v","w","x","y","z">>

\* str.lower() on one character
LowerChar(c) ==
    IF \E i \in 1..Len(UpperChars) : UpperChars[i] = c
    THEN LowerChars[CHOOSE i \in 1..Len(UpperChars) : UpperChars[i] = c]
    ELSE c

\* str.upper() on one character (used only to build raw inputs)
UpperChar(c) ==
    IF \E i \in 1..Len(LowerChars) : LowerChars[i] = c
    THEN UpperChars[CHOOSE i \in 1..Len(LowerChars) : LowerChars[i] = c]
    ELSE c

\* str.lower()
Lower(s) == [i \in 1..Len(s) |-> LowerChar(s[i])]

Upper(s) == [i \in 1..Len(s) |-> UpperChar(s[i])]

Capitalize(s) == [i \in 1..Len(s) |-> IF i = 1 THEN UpperChar(s[i]) ELSE s[i]]

IsSpace(c) == c = " "

\* str.strip(): drop leading and trailing whitespace
RECURSIVE LStrip(_)
LStrip(s) == IF s # <<>> /\ IsSpace(Head(s)) THEN LStrip(Tail(s)) ELSE s

RECURSIVE RStrip(_)
RStrip(s) ==
    IF s # <<>> /\ IsSpace(s[Len(s)]) THEN RStrip(SubSeq(s, 1, Len(s) - 1)) ELSE s

Strip(s) == RStrip(LStrip(s))

\* set(s): the characters of a string
CharSet(s) == {s[i] : i \in 1..Len(s)}

\* the elements of a list
Range(l) == {l[i] : i \in 1..Len(l)}

\* all lists over S of length at most n
SeqsUpTo(S, n) == UNION {[1..k -> S] : k \in 0..n}

(***************************************************************************)
(* Skill words.                                                            *)
(***************************************************************************)
Skill ==
    [ js                      |-> <<"j", "s">>,
      ts                      |-> <<"t", "s">>,
      reactjs                 |-> <<"r", "e", "a", "c", "t", "j", "s">>,
      react_js                |-> <<"r", "e", "a", "c", "t", ".", "j", "s">>,
      nodejs                  |-> <<"n", "o", "d", "e", "j", "s">>,
      node                    |-> <<"n", "o", "d", "e">>,
      ml                      |-> <<"m", "l">>,
      ai                      |-> <<"a", "i">>,
      aws                     |-> <<"a", "w", "s">>,
      gcp                     |-> <<"g", "c", "p">>,
      javascript              |-> <<"j", "a", "v", "a", "s", "c", "r", "i", "p", "t">>,
      typescript              |-> <<"t", "y", "p", "e", "s", "c", "r", "i", "p", "t">>,
      react                   |-> <<"r", "e", "a", "c", "t">>,
      node_js                 |-> <<"n", "o", "d", "e", ".", "j", "s">>,
      machine_learning        |-> <<"m", "a", "c", "h", "i", "n", "e", " ", "l", "e", "a", "r", "n", "i", "n", "g">>,
      artificial_intelligence |-> <<"a", "r", "t", "i", "f", "i", "c", "i", "a", "l", " ", "i", "n", "t", "e", "l", "l", "i", "g", "e", "n", "c", "e">>,
      amazon_web_services     |-> <<"a", "m", "a", "z", "o", "n", " ", "w", "e", "b", " ", "s", "e", "r", "v", "i", "c", "e", "s">>,
      google_cloud_platform   |-> <<"g", "o", "o", "g", "l", "e", " ", "c", "l", "o", "u", "d", " ", "p", "l", "a", "t", "f", "o", "r", "m">>,
      python                  |-> <<"p", "y", "t", "h", "o", "n">>,
      django                  |-> <<"d", "j", "a", "n", "g", "o">>,
      postgresql              |-> <<"p", "o", "s", "t", "g", "r", "e", "s", "q", "l">>,
      flask                   |-> <<"f", "l", "a", "s", "k">>,
      mysql                   |-> <<"m", "y", "s", "q", "l">>,
      sql                     |-> <<"s", "q", "l">>,
      html                    |-> <<"h", "t", "m", "l">>,
      css                     |-> <<"c", "s", "s">>,
      docker                  |-> <<"d", "o", "c", "k", "e", "r">> ]

\* raw skills as a job posting or a resume spells them
Raw ==
    [ Python       |-> <<"P", "y", "t", "h", "o", "n">>,
      JS           |-> <<"J", "S">>,
      SQL          |-> <<"S", "Q", "L">>,
      python_blank |-> <<"p", "y", "t", "h", "o", "n", " ">>,
      JavaScript   |-> <<"J", "a", "v", "a", "S", "c", "r", "i", "p", "t">>,
      MySQL        |-> <<"M", "y", "S", "Q", "L">>,
      Django       |-> <<"D", "j", "a", "n", "g", "o">>,
      PostgreSQL   |-> <<"P", "o", "s", "t", "g", "r", "e", "S", "Q", "L">>,
      Flask        |-> <<"F", "l", "a", "s", "k">>,
      HTML         |-> <<"H", "T", "M", "L">>,
      CSS          |-> <<"C", "S", "S">>,
      React        |-> <<"R", "e", "a", "c", "t">>,
      AWS          |-> <<"A", "W", "S">>,
      Docker       |-> <<"D", "o", "c", "k", "e", "r">> ]

(***************************************************************************)
(* EvaluationEngine.normalize_skill                                        *)
(***************************************************************************)
\* a mapping with an alias chain: 'nodejs' is sent to another alias key
skill_mappings_chained ==
    [k \in {Skill.js, Skill.ts, Skill.reactjs, Skill.react_js, Skill.nodejs, Skill.node, Skill.ml, Skill.ai,
            Skill.aws, Skill.gcp} |->
        CASE k = Skill.js -> Skill.javascript
          [] k = Skill.ts -> Skill.typescript
          [] k = Skill.reactjs -> Skill.react
          [] k = Skill.react_js -> Skill.react
          [] k = Skill.nodejs -> Skill.node
          [] k = Skill.node -> Skill.node_js
          [] k = Skill.ml -> Skill.machine_learning
          [] k = Skill.ai -> Skill.artificial_intelligence
          [] k = Skill.aws -> Skill.amazon_web_services
          [] k = Skill.gcp -> Skill.google_cloud_platform]

\* the dict skill_mappings of normalize_skill
skill_mappings ==
    [k \in {Skill.js, Skill.ts, Skill.reactjs, Skill.react_js, Skill.nodejs, Skill.node, Skill.ml, Skill.ai,
            Skill.aws, Skill.gcp} |->
        CASE k = Skill.js -> Skill.javascript
          [] k = Skill.ts -> Skill.typescript
          [] k = Skill.reactjs -> Skill.react
          [] k = Skill.react_js -> Skill.react
          [] k = Skill.nodejs -> Skill.node_js
          [] k = Skill.node -> Skill.node_js
          [] k = Skill.ml -> Skill.machine_learning
          [] k = Skill.ai -> Skill.artificial_intelligence
          [] k = Skill.aws -> Skill.amazon_web_services
          [] k = Skill.gcp -> Skill.google_cloud_platform]

\* skill = skill.strip().lower(); return skill_mappings.get(skill, skill)
normalize_skill(skill) ==
    LET s == Lower(Strip(skill))
    IN  IF s \in DOMAIN skill_mappings THEN skill_mappings[s] ELSE s

(***************************************************************************)
(* Engine construction.                                                    *)
(***************************************************************************)
\* settings whose two weights sum to 1.2
settings_overweight ==
    [hard_match_weight |-> 6, semantic_match_weight |-> 6]

\* Settings.hard_match_weight / semantic_match_weight, in tenths
settings ==
    [hard_match_weight |-> 4, semantic_match_weight |-> 6]

\* EvaluationEngine.__init__: the weights are read from settings
EvaluationEngineInit ==
    [embedding_model |-> None,
     hard_match_weight |-> settings.hard_match_weight,
     semantic_match_weight |-> settings.semantic_match_weight]

\* the SentenceTransformer('all-MiniLM-L6-v2') that __init__ loads
SentenceTransformerModel == <<"all-MiniLM-L6-v2">>

\* self.sentence_model after __init__: the loaded model, or None when
\* loading raised
SentenceModels == {SentenceTransformerModel, None}

\* InnomaticsHybridScoringEngine.__init__ with the default WeightingConfig
\* (weights in tenths, thresholds in points); tfidf is the pair of documents
\* the TfidfVectorizer was last fitted on, <<>> before the first fit
HybridEngineInit(sentence_model) ==
    [config |-> [hard_match_weight |-> 6, soft_match_weight |-> 4,
                 must_have_skills_weight |-> 4, good_to_have_skills_weight |-> 2,
                 qualification_weight |-> 2, experience_weight |-> 2,
                 semantic_similarity_weight |-> 5, role_alignment_weight |-> 3,
                 project_relevance_weight |-> 2,
                 high_fit_threshold |-> 75, medium_fit_threshold |-> 50],
     sentence_model |-> sentence_model,
     tfidf |-> <<>>,
     fuzzy_threshold |-> 80]

\* the two engines as the application modules construct them; no evaluate
\* call is remembered yet
Constructed ==
    /\ engine = EvaluationEngineInit
    /\ \E sentence_model \in SentenceModels : hybrid = HybridEngineInit(sentence_model)
    /\ op = "none"
    /\ ret = None
    /\ first = <<>>

(***************************************************************************)
(* Specification SpecNormalize: normalize_skill applied to a raw skill,    *)
(* then to its own result.                                                 *)
(***************************************************************************)
SmallAlphabet == {"j", "s", "S", " "}

SkillWords ==
    {Skill.js, Skill.ts, Skill.reactjs, Skill.react_js, Skill.nodejs, Skill.node, Skill.ml, Skill.ai, Skill.aws,
     Skill.gcp, Skill.javascript, Skill.typescript, Skill.react, Skill.node_js, Skill.machine_learning,
     Skill.artificial_intelligence, Skill.amazon_web_services, Skill.google_cloud_platform,
     Skill.python, Skill.sql, <<>>}

Pads == SeqsUpTo({" "}, MaxPad)

RawSkills ==
    {p \o v \o q : p \in Pads, q \in Pads,
                   v \in UNION {{w, Upper(w), Capitalize(w)} : w \in SkillWords}}
    \cup SeqsUpTo(SmallAlphabet, MaxStr)

InitNormalize ==
    /\ Constructed
    /\ args \in RawSkills

\* a call of engine.normalize_skill on the raw skill, or on what the
\* previous call returned
NormalizeSkillCall ==
    /\ op \in {"none", "normalize_skill"}
    /\ Len(IF op = "none" THEN <<>> ELSE ret) < MaxCalls
    /\ op' = "normalize_skill"
    /\ ret' = IF op = "none"
              THEN <<normalize_skill(args)>>
              ELSE Append(ret, normalize_skill(ret[Len(ret)]))
    /\ UNCHANGED <<engine, hybrid, args, first>>

NextNormalize == NormalizeSkillCall

SpecNormalize == InitNormalize /\ [][NextNormalize]_vars

(* C6: normalize_skill is total and idempotent: every call returns a      *)
(* string, a second application returns what the first returned, a known  *)
(* alias (after trimming and lower-casing) is rewritten to its canonical  *)
(* form, and an unknown token is returned trimmed and lower-cased.        *)
C6_NormalizeIdempotent ==
    op = "normalize_skill" =>
        /\ \A i \in 1..Len(ret) : ret[i] \in Seq(CharSet(ret[i]))
        /\ \A i \in 2..Len(ret) : ret[i] = ret[1]
        /\ LET t == Lower(Strip(args))
           IN  /\ t = Skill.js => ret[1] = Skill.javascript
               /\ t = Skill.ts => ret[1] = Skill.typescript
               /\ t \in {Skill.reactjs, Skill.react_js} => ret[1] = Skill.react
               /\ t \in {Skill.nodejs, Skill.node} => ret[1] = Skill.node_js
               /\ t = Skill.ml => ret[1] = Skill.machine_learning
               /\ t = Skill.ai => ret[1] = Skill.artificial_intelligence
               /\ t = Skill.aws => ret[1] = Skill.amazon_web_services
               /\ t = Skill.gcp => ret[1] = Skill.google_cloud_platform
               /\ t \notin {Skill.js, Skill.ts, Skill.reactjs, Skill.react_js, Skill.nodejs, Skill.node,
                            Skill.ml, Skill.ai, Skill.aws, Skill.gcp} => ret[1] = t
        /\ \A k \in DOMAIN skill_mappings : skill_mappings[k] \notin DOMAIN skill_mappings

\* an upper-case, padded alias was normalized twice
C6_Witness ==
    /\ op = "normalize_skill"
    /\ args = <<" ", "N", "O", "D", "E", " ">>
    /\ Len(ret) = 2
    /\ ret[2] = Skill.node_js

(***************************************************************************)
(* Exact arithmetic on the engines' floats: a score is a fraction n / d.   *)
(***************************************************************************)
Frac(n, d) == [n |-> n, d |-> d]

\* x >= k for a fraction x and an integer k
FracGe(x, k) == x.n >= k * x.d

\* x < k
FracLt(x, k) == x.n < k * x.d

\* min(x, k) and max(x, k) against an integer k
FracMin(x, k) == IF FracLt(x, k) THEN x ELSE Frac(k, 1)

FracMax(x, k) == IF FracGe(x, k) THEN x ELSE Frac(k, 1)

FracEq(x, y) == x.n * y.d = y.n * x.d

(***************************************************************************)
(* Verdict tiers.                                                          *)
(***************************************************************************)
\* tiers with the lower bound exclusive: a score equal to a threshold falls
\* into the tier below
determine_suitability_exclusive(relevance_score) ==
    IF relevance_score.n > 70 * relevance_score.d THEN "High"
    ELSE IF relevance_score.n > 45 * relevance_score.d THEN "Medium"
    ELSE "Low"

\* EvaluationEngine.determine_suitability
determine_suitability(relevance_score) ==
    IF FracGe(relevance_score, 70) THEN "High"
    ELSE IF FracGe(relevance_score, 45) THEN "Medium"
    ELSE "Low"

\* InnomaticsHybridScoringEngine._determine_fit_verdict (FitVerdict values)
_determine_fit_verdict(self, relevance_score) ==
    IF FracGe(relevance_score, self.config.high_fit_threshold) THEN "High"
    ELSE IF FracGe(relevance_score, self.config.medium_fit_threshold) THEN "Medium"
    ELSE "Low"

(***************************************************************************)
(* Specification SpecVerdict: the two verdict functions applied to scores  *)
(* given in thousandths of a point.                                        *)
(***************************************************************************)
VerdictScores ==
    {Frac(k, 1000) : k \in {250 * j : j \in 0..400}
                          \cup (44000..46000) \cup (49000..51000)
                          \cup (69000..71000) \cup (74000..76000)
                          \cup {-1000, 101000}}

InitVerdict ==
    /\ Constructed
    /\ args \in VerdictScores

DetermineFitVerdictCall ==
    /\ op' = "_determine_fit_verdict"
    /\ ret' = _determine_fit_verdict(hybrid, args)
    /\ UNCHANGED <<engine, hybrid, args, first>>

DetermineSuitabilityCall ==
    /\ op' = "determine_suitability"
    /\ ret' = determine_suitability(args)
    /\ UNCHANGED <<engine, hybrid, args, first>>

NextVerdict == DetermineFitVerdictCall \/ DetermineSuitabilityCall

SpecVerdict == InitVerdict /\ [][NextVerdict]_vars

TierRank(v) == CASE v = "Low" -> 0 [] v = "Medium" -> 1 [] v = "High" -> 2

(* C2: the verdict is a step function of the score with inclusive lower   *)
(* bounds: the hybrid engine gives High iff score >= 75, Medium iff        *)
(* 50 <= score < 75, Low iff score < 50; determine_suitability does the   *)
(* same with 70 and 45; and a score one thousandth higher never gets a    *)
(* lower tier.                                                             *)
C2_VerdictSteps ==
    /\ op = "_determine_fit_verdict" =>
        /\ ret = "High" <=> args.n >= 75000
        /\ ret = "Medium" <=> (args.n >= 50000 /\ args.n < 75000)
        /\ ret = "Low" <=> args.n < 50000
        /\ TierRank(_determine_fit_verdict(hybrid, Frac(args.n + 1, args.d)))
              >= TierRank(ret)
    /\ op = "determine_suitability" =>
        /\ ret = "High" <=> args.n >= 70000
        /\ ret = "Medium" <=> (args.n >= 45000 /\ args.n < 70000)
        /\ ret = "Low" <=> args.n < 45000
        /\ TierRank(determine_suitability(Frac(args.n + 1, args.d)))
              >= TierRank(ret)

\* Scenario E: 74.999 was judged Medium by the strict profile
C2_Witness ==
    /\ op = "_determine_fit_verdict"
    /\ args = Frac(74999, 1000)
    /\ ret = "Medium"

(***************************************************************************)
(* EvaluationEngine: hard matching (lenient profile).                      *)
(***************************************************************************)
\* a similarity cut-off of 25 instead of 50
fuzzy_cutoff_25 == 50 - 25

\* the literal 50 of "if similarity >= 50" in calculate_hard_match_score
fuzzy_cutoff == 50

\* EvaluationEngine._calculate_string_similarity: Jaccard over the two
\* strings' character sets, on a 0..100 scale
_calculate_string_similarity(s1, s2) ==
    LET a == CharSet(Lower(s1))
        b == CharSet(Lower(s2))
    IN  IF a \cup b = {} THEN Frac(0, 1)
        ELSE Frac(100 * Cardinality(a \cap b), Cardinality(a \cup b))

\* the exact-match loop: job skills that are in candidate_skills, in order
ExactMatches(all_job_skills, candidate_skills) ==
    LET hit(x) == x \in Range(candidate_skills)
    IN  SelectSeq(all_job_skills, hit)

\* the fuzzy loop over all_job_skills[i..]: a job skill not yet in
\* matched_skills is appended when some candidate skill is similar enough
RECURSIVE FuzzyMatches(_, _, _, _)
FuzzyMatches(all_job_skills, candidate_skills, i, matched_skills) ==
    IF i > Len(all_job_skills) THEN matched_skills
    ELSE LET job_skill == all_job_skills[i]
             similar == \E k \in 1..Len(candidate_skills) :
                 FracGe(_calculate_string_similarity(job_skill, candidate_skills[k]),
                        fuzzy_cutoff)
         IN  FuzzyMatches(all_job_skills, candidate_skills, i + 1,
                 IF job_skill \notin Range(matched_skills) /\ similar
                 THEN Append(matched_skills, job_skill)
                 ELSE matched_skills)

\* sum(1 for skill in skills if skill in matched_skills)
CountIn(skills, matched_skills) ==
    Cardinality({i \in 1..Len(skills) : skills[i] \in Range(matched_skills)})

\* the score with an empty preferred list counted as no credit
hard_score_no_vacuous(required_skills, preferred_skills, matched_skills) ==
    LET R == Len(required_skills)
        P == Len(preferred_skills)
        rm == CountIn(required_skills, matched_skills)
        pm == CountIn(preferred_skills, matched_skills)
    IN  IF R > 0 /\ P > 0 THEN Frac(60 * rm * P + 40 * pm * R, R * P)
        ELSE IF R > 0 THEN Frac(60 * rm, R)
        ELSE Frac(40 * pm, P)

\* (required_score + preferred_score) * 100 of calculate_hard_match_score,
\* for a job with at least one skill
hard_score(required_skills, preferred_skills, matched_skills) ==
    LET R == Len(required_skills)
        P == Len(preferred_skills)
        rm == CountIn(required_skills, matched_skills)
        pm == CountIn(preferred_skills, matched_skills)
    IN  IF R > 0 /\ P > 0 THEN Frac(60 * rm * P + 40 * pm * R, R * P)
        ELSE IF R > 0 THEN Frac(60 * rm + 40 * R, R)
        ELSE Frac(40 * pm, P)

\* EvaluationEngine.calculate_hard_match_score: (score, matched, missing)
calculate_hard_match_score(job_data, resume_data) ==
    LET scored(required_skills, preferred_skills, all_job_skills, matched_skills) ==
            LET unmatched(x) == x \notin Range(matched_skills)
            IN  IF all_job_skills = <<>>
                THEN [score |-> Frac(0, 1), matched_skills |-> <<>>,
                      missing_skills |-> <<>>]
                ELSE [score |-> FracMin(hard_score(required_skills, preferred_skills,
                                                   matched_skills), 100),
                      matched_skills |-> matched_skills,
                      missing_skills |-> SelectSeq(all_job_skills, unmatched)]
        matching(required_skills, preferred_skills, all_job_skills, candidate_skills) ==
            scored(required_skills, preferred_skills, all_job_skills,
                   FuzzyMatches(all_job_skills, candidate_skills, 1,
                                ExactMatches(all_job_skills, candidate_skills)))
        normalized(required_skills, preferred_skills, candidate_skills) ==
            matching(required_skills, preferred_skills,
                     required_skills \o preferred_skills, candidate_skills)
    IN  normalized([i \in 1..Len(job_data.required_skills) |->
                       normalize_skill(job_data.required_skills[i])],
                   [i \in 1..Len(job_data.preferred_skills) |->
                       normalize_skill(job_data.preferred_skills[i])],
                   [i \in 1..Len(resume_data.skills) |->
                       normalize_skill(resume_data.skills[i])])

(***************************************************************************)
(* fuzzywuzzy, as InnomaticsHybridScoringEngine._match_skills calls it:    *)
(* process.extractOne(query, choices, scorer=fuzz.token_set_ratio).        *)
(***************************************************************************)
IsAlnum(c) ==
    \/ \E i \in 1..Len(LowerChars) : LowerChars[i] = c \/ UpperChars[i] = c
    \/ c \in {"0", "1", "2", "3", "4", "5", "6", "7", "8", "9"}

\* utils.full_process: non-alphanumerics to blanks, lower-case, strip
full_process(s) ==
    Strip(Lower([i \in 1..Len(s) |-> IF IsAlnum(s[i]) THEN s[i] ELSE " "]))

\* str.split(): the maximal runs of non-blank characters, in order
RECURSIVE SplitFrom(_, _, _, _)
SplitFrom(s, i, cur, acc) ==
    IF i > Len(s) THEN (IF cur = <<>> THEN acc ELSE Append(acc, cur))
    ELSE IF IsSpace(s[i])
         THEN SplitFrom(s, i + 1, <<>>, IF cur = <<>> THEN acc ELSE Append(acc, cur))
         ELSE SplitFrom(s, i + 1, Append(cur, s[i]), acc)

Split(s) == SplitFrom(s, 1, <<>>, <<>>)

\* code-point order of the characters full_process leaves: blank, digits, letters
CharOrd(c) ==
    IF \E i \in 1..Len(LowerChars) : LowerChars[i] = c
    THEN 100 + (CHOOSE i \in 1..Len(LowerChars) : LowerChars[i] = c)
    ELSE IF c \in {"0", "1", "2", "3", "4", "5", "6", "7", "8", "9"}
         THEN 50 + (CHOOSE k \in 0..9 : <<"0","1","2","3","4","5","6","7","8","9">>[k + 1] = c)
         ELSE 0

\* s < t for Python strings
RECURSIVE StrLess(_, _)
StrLess(s, t) ==
    IF t = <<>> THEN FALSE
    ELSE IF s = <<>> THEN TRUE
    ELSE IF CharOrd(Head(s)) # CharOrd(Head(t)) THEN CharOrd(Head(s)) < CharOrd(Head(t))
    ELSE StrLess(Tail(s), Tail(t))

\* " ".join(sorted(tokens)) for a set of tokens
RECURSIVE JoinSorted(_)
JoinSorted(tokens) ==
    IF tokens = {} THEN <<>>
    ELSE LET m == CHOOSE x \in tokens : \A y \in tokens \ {x} : StrLess(x, y)
         IN  IF tokens = {m} THEN m ELSE m \o <<" ">> \o JoinSorted(tokens \ {m})

\* one row of the longest-common-subsequence table: cur[j + 1] is the LCS
\* length of a[1..i] and b[1..j], prev the row of a[1..i-1]
RECURSIVE LcsRow(_, _, _, _)
LcsRow(ai, b, prev, cur) ==
    IF Len(cur) > Len(b) THEN cur
    ELSE LET j == Len(cur)
         IN  LcsRow(ai, b, prev,
                    Append(cur, IF ai = b[j] THEN prev[j] + 1
                                ELSE IF prev[j + 1] >= cur[j] THEN prev[j + 1]
                                ELSE cur[j]))

RECURSIVE LcsRows(_, _, _, _)
LcsRows(a, b, i, prev) ==
    IF i > Len(a) \/ Len(prev) = 0 THEN prev[Len(b) + 1]
    ELSE LcsRows(a, b, i + 1, LcsRow(a[i], b, prev, <<0>>))

\* the number of matched characters M of the sequence matcher
MatchedChars(a, b) == LcsRows(a, b, 1, [j \in 1..(Len(b) + 1) |-> 0])

\* int(round(x)) for x = n / d >= 0, ties to the even integer
RoundHalfEven(n, d) ==
    LET q == n \div d
        r == n % d
    IN  IF 2 * r < d THEN q
        ELSE IF 2 * r > d THEN q + 1
        ELSE IF q % 2 = 0 THEN q ELSE q + 1

\* fuzz.ratio: 100 for equal strings, 0 when one is empty, else
\* int(round(100 * 2M / T))
fuzz_ratio(s1, s2) ==
    IF s1 = s2 THEN 100
    ELSE IF s1 = <<>> \/ s2 = <<>> THEN 0
    ELSE RoundHalfEven(200 * MatchedChars(s1, s2), Len(s1) + Len(s2))

Max3(a, b, c) ==
    IF a >= b /\ a >= c THEN a ELSE IF b >= c THEN b ELSE c

\* fuzz.token_set_ratio on two processed strings (full_process=False)
token_set_ratio(p1, p2) ==
    IF p1 = p2 THEN 100
    ELSE IF p1 = <<>> \/ p2 = <<>> THEN 0
    ELSE LET ratios(sorted_sect, combined_1to2, combined_2to1) ==
                 Max3(fuzz_ratio(sorted_sect, combined_1to2),
                      fuzz_ratio(sorted_sect, combined_2to1),
                      fuzz_ratio(combined_1to2, combined_2to1))
             combined(sorted_sect, sorted_1to2, sorted_2to1) ==
                 ratios(sorted_sect,
                        Strip(sorted_sect \o <<" ">> \o sorted_1to2),
                        Strip(sorted_sect \o <<" ">> \o sorted_2to1))
             sorted(tokens1, tokens2) ==
                 combined(JoinSorted(tokens1 \cap tokens2),
                          JoinSorted(tokens1 \ tokens2),
                          JoinSorted(tokens2 \ tokens1))
         IN  sorted(Range(Split(p1)), Range(Split(p2)))

\* the score of process.extractOne(query, choices, scorer=token_set_ratio);
\* extractOne returns None when there is no choice, modelled as score -1
extractOne_score(query, choices) ==
    IF choices = <<>> THEN -1
    ELSE LET best(scores) == CHOOSE m \in scores : \A x \in scores : x <= m
         IN  best({token_set_ratio(full_process(query), full_process(choices[k])) :
                      k \in 1..Len(choices)})

(***************************************************************************)
(* InnomaticsHybridScoringEngine: hard matching (strict profile).          *)
(***************************************************************************)
\* a matcher whose fuzzy branch lacks the else: a skill matched only
\* fuzzily is appended to missing as well
_match_skills_no_else(self, required_skills, candidate_skills) ==
    LET candidate_skills_lower ==
            [k \in 1..Len(candidate_skills) |-> Lower(candidate_skills[k])]
        exact(r) == Lower(r) \in Range(candidate_skills_lower)
        hit(r) == \/ exact(r)
                  \/ extractOne_score(Lower(r), candidate_skills_lower)
                        >= self.fuzzy_threshold
        miss(r) == ~exact(r)
    IN  [matched |-> SelectSeq(required_skills, hit),
         missing |-> SelectSeq(required_skills, miss)]

\* InnomaticsHybridScoringEngine._match_skills: (matched, missing)
_match_skills(self, required_skills, candidate_skills) ==
    LET candidate_skills_lower ==
            [k \in 1..Len(candidate_skills) |-> Lower(candidate_skills[k])]
        hit(required_skill) ==
            LET required_skill_lower == Lower(required_skill)
                best == extractOne_score(required_skill_lower, candidate_skills_lower)
            IN  \/ required_skill_lower \in Range(candidate_skills_lower)
                \/ best >= self.fuzzy_threshold
        miss(required_skill) == ~hit(required_skill)
    IN  [matched |-> SelectSeq(required_skills, hit),
         missing |-> SelectSeq(required_skills, miss)]

(***************************************************************************)
(* Specification SpecSkills: the two engines' skill matching applied to a  *)
(* job's skill lists and a resume's skill list.                            *)
(***************************************************************************)
JobSkillPool == {Raw.Python, Raw.JS, Raw.SQL}

CandidateSkillPool == {Raw.python_blank, Raw.JavaScript, Raw.MySQL}

\* the order-preserving sub-lists of a list
SubLists(l) ==
    {LET keep(x) == x \in S IN SelectSeq(l, keep) : S \in SUBSET Range(l)}

\* Scenario A of the spec and the sample of test_less_strict_evaluation.py
ScenarioRequired == <<Raw.Python, Raw.Django, Raw.PostgreSQL>>

ScenarioPreferred == <<Raw.React, Raw.AWS, Raw.Docker>>

ScenarioSkills == <<Raw.Python, Raw.Flask, Raw.MySQL, Raw.HTML, Raw.CSS>>

SkillInputs ==
    [required_skills : SeqsUpTo(JobSkillPool, MaxRequired),
     preferred_skills : SeqsUpTo(JobSkillPool, MaxPreferred),
     skills : SeqsUpTo(CandidateSkillPool, MaxCandidate)]
    \cup [required_skills : {ScenarioRequired},
          preferred_skills : {<<>>, ScenarioPreferred},
          skills : SubLists(ScenarioSkills)]

InitSkills ==
    /\ Constructed
    /\ args \in SkillInputs

\* engine.calculate_hard_match_score(job_data, resume_data)
CalculateHardMatchScoreCall ==
    /\ op' = "calculate_hard_match_score"
    /\ ret' = calculate_hard_match_score(
                  [required_skills |-> args.required_skills,
                   preferred_skills |-> args.preferred_skills],
                  [skills |-> args.skills])
    /\ UNCHANGED <<engine, hybrid, args, first>>

\* scoring_engine._match_skills(must_have_skills, candidate skills)
MatchSkillsCall ==
    /\ op' = "_match_skills"
    /\ ret' = _match_skills(hybrid, args.required_skills, args.skills)
    /\ UNCHANGED <<engine, hybrid, args, first>>

NextSkills == CalculateHardMatchScoreCall \/ MatchSkillsCall

SpecSkills == InitSkills /\ [][NextSkills]_vars

NormalizedList(l) == [i \in 1..Len(l) |-> normalize_skill(l[i])]

(* C3: matched and missing are disjoint, together they are exactly the    *)
(* job skill list that was scored (the must-have list for _match_skills,  *)
(* the normalized required + preferred list for                           *)
(* calculate_hard_match_score), so no matched element is a candidate      *)
(* skill that is not a job skill.                                          *)
C3_MatchedMissingPartition ==
    /\ op = "_match_skills" =>
        /\ Range(ret.matched) \cap Range(ret.missing) = {}
        /\ Range(ret.matched) \cup Range(ret.missing) = Range(args.required_skills)
    /\ op = "calculate_hard_match_score" =>
        /\ Range(ret.matched_skills) \cap Range(ret.missing_skills) = {}
        /\ Range(ret.matched_skills) \cup Range(ret.missing_skills)
              = Range(NormalizedList(args.required_skills \o args.preferred_skills))

\* a list with a duplicate was split into a matched and a missing part,
\* the candidate having an extra skill
C3_Witness ==
    /\ op = "_match_skills"
    /\ args.required_skills = <<Raw.Python, Raw.Python, Raw.SQL>> \/
       args.required_skills = <<Raw.Python, Raw.Python>>
    /\ args.skills = <<Raw.python_blank, Raw.MySQL>>
    /\ ret.matched # <<>>

(* C7 (as claimed): the hybrid engine's hard matching normalizes both     *)
(* sides, so a required skill whose canonical form equals the canonical   *)
(* form of some candidate skill is reported as matched.                    *)
C7_AliasesMatch ==
    op = "_match_skills" =>
        \A i \in 1..Len(args.required_skills) :
            (\E k \in 1..Len(args.skills) :
                normalize_skill(args.required_skills[i]) = normalize_skill(args.skills[k]))
            => args.required_skills[i] \in Range(ret.matched)

(* C9: calculate_hard_match_score returns min(100, 100 * (0.6 r + 0.4 p)) *)
(* with r the matched fraction of the required skills (0 when there are   *)
(* none) and p the matched fraction of the preferred skills (1 when there *)
(* are none); a job with no skills at all gets score 0 and two empty      *)
(* lists.                                                                  *)
C9_HardMatchFormula ==
    op = "calculate_hard_match_score" =>
        LET R == Len(args.required_skills)
            P == Len(args.preferred_skills)
            m == Range(ret.matched_skills)
            rm == Cardinality({i \in 1..R : normalize_skill(args.required_skills[i]) \in m})
            pm == Cardinality({i \in 1..P : normalize_skill(args.preferred_skills[i]) \in m})
        IN  /\ (R = 0 /\ P = 0) =>
                /\ ret.score.n = 0
                /\ ret.matched_skills = <<>>
                /\ ret.missing_skills = <<>>
            /\ (R > 0 /\ P > 0) =>
                ret.score.n * (R * P) = (60 * rm * P + 40 * pm * R) * ret.score.d
            /\ (R > 0 /\ P = 0) =>
                ret.score.n * R = (60 * rm + 40 * R) * ret.score.d
            /\ (R = 0 /\ P > 0) =>
                ret.score.n * P = (40 * pm) * ret.score.d
            /\ ret.score.n <= 100 * ret.score.d

\* one of two required skills matched and no preferred skill listed: 70 points
C9_Witness ==
    /\ op = "calculate_hard_match_score"
    /\ args.required_skills = <<Raw.Python, Raw.JS>>
    /\ args.preferred_skills = <<>>
    /\ args.skills = <<Raw.python_blank>>
    /\ FracEq(ret.score, Frac(70, 1))

(* C10: Scenario A under the lenient profile: required Python, Django,    *)
(* PostgreSQL against resume skills Python, Flask, MySQL (and against the *)
(* test sample's Python, Flask, MySQL, HTML, CSS) gives exactly 'python'  *)
(* matched and 'django', 'postgresql' missing.                             *)
C10_ScenarioA ==
    (/\ op = "calculate_hard_match_score"
     /\ args.required_skills = ScenarioRequired
     /\ args.preferred_skills = <<>>
     /\ args.skills \in {<<Raw.Python, Raw.Flask, Raw.MySQL>>, ScenarioSkills})
    => /\ ret.matched_skills = <<Skill.python>>
       /\ ret.missing_skills = <<Skill.django, Skill.postgresql>>

C10_Witness ==
    /\ op = "calculate_hard_match_score"
    /\ args.required_skills = ScenarioRequired
    /\ args.preferred_skills = <<>>
    /\ args.skills = <<Raw.Python, Raw.Flask, Raw.MySQL>>
    /\ ret.matched_skills = <<Skill.python>>

(***************************************************************************)
(* More of Python's str and list operations.                               *)
(***************************************************************************)
\* sub in s
Contains(sub, s) ==
    \E i \in 0..(Len(s) - Len(sub)) : SubSeq(s, i + 1, i + Len(sub)) = sub

\* sep.join(parts)
RECURSIVE Join(_, _)
Join(parts, sep) ==
    IF parts = <<>> THEN <<>>
    ELSE IF Len(parts) = 1 THEN parts[1]
    ELSE parts[1] \o sep \o Join(Tail(parts), sep)

\* a slice that keeps the whole list
Take_all(l, k) == l

\* l[:k]
Take(l, k) == SubSeq(l, 1, IF Len(l) < k THEN Len(l) ELSE k)

\* l[a:b]
Slice(l, a, b) == SubSeq(l, a + 1, IF Len(l) < b THEN Len(l) ELSE b)

\* a call that returned value
Returned(value) == [raised |-> FALSE, value |-> value]

\* a call that raised the exception error
Raised(error) == [raised |-> TRUE, error |-> error]

\* the keywords the engines look for in a qualification, an education entry,
\* a job title and a certification
Keyword ==
    [ bachelor               |-> <<"b", "a", "c", "h", "e", "l", "o", "r">>,
      master                 |-> <<"m", "a", "s", "t", "e", "r">>,
      phd                    |-> <<"p", "h", "d">>,
      doctorate              |-> <<"d", "o", "c", "t", "o", "r", "a", "t", "e">>,
      degree                 |-> <<"d", "e", "g", "r", "e", "e">>,
      computer_science       |-> <<"c", "o", "m", "p", "u", "t", "e", "r", " ", "s", "c", "i", "e", "n", "c", "e">>,
      engineering            |-> <<"e", "n", "g", "i", "n", "e", "e", "r", "i", "n", "g">>,
      information_technology |-> <<"i", "n", "f", "o", "r", "m", "a", "t", "i", "o", "n", " ", "t", "e", "c", "h", "n", "o", "l", "o", "g", "y">>,
      mathematics            |-> <<"m", "a", "t", "h", "e", "m", "a", "t", "i", "c", "s">>,
      statistics             |-> <<"s", "t", "a", "t", "i", "s", "t", "i", "c", "s">>,
      b_tech                 |-> <<"b", ".", "t", "e", "c", "h">>,
      m_tech                 |-> <<"m", ".", "t", "e", "c", "h">>,
      bca                    |-> <<"b", "c", "a">>,
      mca                    |-> <<"m", "c", "a">>,
      computer               |-> <<"c", "o", "m", "p", "u", "t", "e", "r">>,
      information            |-> <<"i", "n", "f", "o", "r", "m", "a", "t", "i", "o", "n">>,
      technology             |-> <<"t", "e", "c", "h", "n", "o", "l", "o", "g", "y">>,
      senior                 |-> <<"s", "e", "n", "i", "o", "r">>,
      certified              |-> <<"c", "e", "r", "t", "i", "f", "i", "e", "d">> ]

(***************************************************************************)
(* EvaluationEngine: semantic score, qualification match, feedback and     *)
(* evaluate.  job_data and resume_data are dicts (records); a value that   *)
(* may be of several Python types carries its type: an education entry is  *)
(* [type |-> "dict", degree, institution] or [type |-> "str", value].      *)
(***************************************************************************)
\* a similarity that compares the tokens as they are spelled, without
\* lower-casing the two texts
calculate_semantic_match_score_no_lower(job_data, resume_data) ==
    IF resume_data.text = None THEN Frac(0, 1)
    ELSE LET job_text == job_data.title \o <<" ">> \o job_data.description
             resume_text == resume_data.text
             job_words == Range(Split(job_text))
             resume_words == Range(Split(resume_text))
             intersection == Cardinality(job_words \cap resume_words)
             union == Cardinality(job_words \cup resume_words)
         IN  IF job_text = <<>> \/ resume_text = <<>> THEN Frac(0, 1)
             ELSE IF union = 0 THEN Frac(0, 1)
             ELSE FracMin(Frac(100 * intersection, union), 100)

\* EvaluationEngine._calculate_simple_text_similarity, to which
\* calculate_semantic_match_score delegates: Jaccard over the token sets,
\* 0..100; None.lower() raises inside the try and gives 0.0
calculate_semantic_match_score(job_data, resume_data) ==
    IF resume_data.text = None THEN Frac(0, 1)
    ELSE LET job_text == Lower(job_data.title \o <<" ">> \o job_data.description)
             resume_text == Lower(resume_data.text)
             job_words == Range(Split(job_text))
             resume_words == Range(Split(resume_text))
             intersection == Cardinality(job_words \cap resume_words)
             union == Cardinality(job_words \cup resume_words)
         IN  IF job_text = <<>> \/ resume_text = <<>> THEN Frac(0, 1)
             ELSE IF union = 0 THEN Frac(0, 1)
             ELSE FracMin(Frac(100 * intersection, union), 100)

qualification_keywords ==
    <<Keyword.bachelor, Keyword.master, Keyword.phd, Keyword.doctorate, Keyword.degree,
      Keyword.computer_science, Keyword.engineering, Keyword.information_technology,
      Keyword.mathematics, Keyword.statistics>>

\* EvaluationEngine.calculate_qualification_match: (matched, missing), or
\* the AttributeError of None.lower() / of str.get
calculate_qualification_match(job_data, resume_data) ==
    IF job_data.qualifications = None
    THEN Raised("'NoneType' object has no attribute 'lower'")
    ELSE IF \E i \in 1..Len(resume_data.education) :
                resume_data.education[i].type # "dict"
    THEN Raised("'str' object has no attribute 'get'")
    ELSE LET job_qualifications == Lower(job_data.qualifications)
             resume_education == resume_data.education
             resume_education_text ==
                 Lower(Join([i \in 1..Len(resume_education) |->
                                resume_education[i].degree \o <<" ">>
                                    \o resume_education[i].institution],
                            <<" ">>))
             asked(keyword) == Contains(keyword, job_qualifications)
             held(keyword) ==
                 asked(keyword) /\ Contains(keyword, resume_education_text)
             lacking(keyword) ==
                 asked(keyword) /\ ~Contains(keyword, resume_education_text)
         IN  Returned([matched_qualifications |->
                           SelectSeq(qualification_keywords, held),
                       missing_qualifications |->
                           SelectSeq(qualification_keywords, lacking)])

\* EvaluationEngine.generate_feedback: the parts that are joined by blanks,
\* each one the sentence template and the values formatted into it
generate_feedback(relevance_score, matched_skills, missing_skills, suitability) ==
    LET opening == <<[part |-> "assessment", tier |-> suitability]>>
        matched ==
            IF matched_skills # <<>>
            THEN <<[part |-> "matched", skills |-> Take(matched_skills, 5),
                    more |-> IF Len(matched_skills) > 5
                             THEN Len(matched_skills) - 5 ELSE 0]>>
            ELSE <<>>
        missing ==
            IF missing_skills # <<>>
            THEN <<[part |-> "missing", skills |-> Take(missing_skills, 3)]>>
                 \o (IF Len(missing_skills) > 3
                     THEN <<[part |-> "additional",
                             skills |-> Slice(missing_skills, 3, 6)]>>
                     ELSE <<>>)
            ELSE <<>>
        closing ==
            <<[part |-> "recommendation",
               band |-> IF FracLt(relevance_score, 45) THEN "Low"
                        ELSE IF FracLt(relevance_score, 70) THEN "Medium"
                        ELSE "High"]>>
    IN  opening \o matched \o missing \o closing

\* round(x, 2)
Round2(x) == Frac(RoundHalfEven(100 * x.n, x.d), 100)

\* a default result that reports no missing skill
default_result_empty_missing(job_data, e) ==
    [relevance_score |-> Frac(0, 1),
     hard_match_score |-> Frac(0, 1),
     semantic_match_score |-> Frac(0, 1),
     matched_skills |-> <<>>,
     missing_skills |-> <<>>,
     matched_qualifications |-> <<>>,
     missing_qualifications |-> <<>>,
     suitability |-> "Low",
     feedback |-> <<[part |-> "error", error |-> e]>>]

\* the result evaluate builds in its except branch
default_result(job_data, e) ==
    [relevance_score |-> Frac(0, 1),
     hard_match_score |-> Frac(0, 1),
     semantic_match_score |-> Frac(0, 1),
     matched_skills |-> <<>>,
     missing_skills |-> job_data.required_skills,
     matched_qualifications |-> <<>>,
     missing_qualifications |-> <<>>,
     suitability |-> "Low",
     feedback |-> <<[part |-> "error", error |-> e]>>]

\* EvaluationEngine.evaluate: the result dict
evaluate(self, job_data, resume_data) ==
    LET result(hard, semantic_match_score, qualification, relevance_score, suitability) ==
            [relevance_score |-> Round2(relevance_score),
             hard_match_score |-> Round2(hard.score),
             semantic_match_score |-> Round2(semantic_match_score),
             matched_skills |-> hard.matched_skills,
             missing_skills |-> hard.missing_skills,
             matched_qualifications |-> qualification.value.matched_qualifications,
             missing_qualifications |-> qualification.value.missing_qualifications,
             suitability |-> suitability,
             feedback |-> generate_feedback(relevance_score, hard.matched_skills,
                                            hard.missing_skills, suitability)]
        weighted(hard, semantic_match_score, qualification, relevance_score) ==
            result(hard, semantic_match_score, qualification, relevance_score,
                   determine_suitability(relevance_score))
        steps(hard, semantic_match_score, qualification) ==
            IF qualification.raised
            THEN default_result(job_data, qualification.error)
            ELSE weighted(hard, semantic_match_score, qualification,
                     Frac(hard.score.n * self.hard_match_weight * semantic_match_score.d
                             + semantic_match_score.n * self.semantic_match_weight
                                 * hard.score.d,
                          10 * hard.score.d * semantic_match_score.d))
    IN  steps(calculate_hard_match_score(job_data, resume_data),
              calculate_semantic_match_score(job_data, resume_data),
              calculate_qualification_match(job_data, resume_data))

\* an evaluate that swaps the two weights of self on every call
evaluate_effects_swapping(self, job_data, resume_data) ==
    [self |-> [self EXCEPT !.hard_match_weight = self.semantic_match_weight,
                           !.semantic_match_weight = self.hard_match_weight],
     job_data |-> job_data, resume_data |-> resume_data]

\* what evaluate leaves of the objects it was given: it assigns to no
\* attribute of self and to no key or list of job_data and resume_data
evaluate_effects(self, job_data, resume_data) ==
    [self |-> self, job_data |-> job_data, resume_data |-> resume_data]

(***************************************************************************)
(* InnomaticsHybridScoringEngine: qualification and experience matching,   *)
(* the weighted hard-match score and _perform_hard_matching.               *)
(* job_analysis is a JobDescriptionAnalysis, resume_analysis a             *)
(* ResumeAnalysis (records); total_experience_years and the years of a     *)
(* work-experience entry are kept in tenths of a year.                     *)
(***************************************************************************)

degree_level_keywords ==
    <<Keyword.bachelor, Keyword.master, Keyword.phd, Keyword.b_tech, Keyword.m_tech, Keyword.bca, Keyword.mca>>

technical_field_keywords ==
    <<Keyword.computer, Keyword.information, Keyword.technology, Keyword.engineering>>

\* InnomaticsHybridScoringEngine._match_qualifications
_match_qualifications(self, required_qualifications, candidate_education) ==
    IF required_qualifications = <<>> THEN TRUE
    ELSE LET candidate_degrees ==
                 [k \in 1..(2 * Len(candidate_education)) |->
                     IF k % 2 = 1
                     THEN Lower(candidate_education[(k + 1) \div 2].degree)
                     ELSE Lower(candidate_education[k \div 2].field)]
             candidate_text == Join(candidate_degrees, <<" ">>)
         IN  IF /\ \E k \in 1..Len(degree_level_keywords) :
                       Contains(degree_level_keywords[k], candidate_text)
                /\ \E k \in 1..Len(technical_field_keywords) :
                       Contains(technical_field_keywords[k], candidate_text)
             THEN TRUE
             ELSE Len(candidate_education) > 0

Digits == <<"0", "1", "2", "3", "4", "5", "6", "7", "8", "9">>

IsDigit(c) == \E k \in 1..Len(Digits) : Digits[k] = c

DigitValue(c) == (CHOOSE k \in 1..Len(Digits) : Digits[k] = c) - 1

\* int() of the digit run of s that starts at position i, continuing acc
RECURSIVE DigitRun(_, _, _)
DigitRun(s, i, acc) ==
    IF i > Len(s) \/ acc < 0 THEN acc
    ELSE IF IsDigit(s[i]) THEN DigitRun(s, i + 1, 10 * acc + DigitValue(s[i]))
    ELSE acc

\* int(re.search(r'(\d+)', s).group(1)), or -1 when the search finds nothing
FirstInteger(s) ==
    IF \E i \in 1..Len(s) : IsDigit(s[i])
    THEN LET i == CHOOSE i \in 1..Len(s) :
                      IsDigit(s[i]) /\ \A j \in 1..(i - 1) : ~IsDigit(s[j])
         IN  DigitRun(s, i, 0)
    ELSE -1

\* the required_years up to 20 for which the double required_years * 0.8
\* is above the decimal product (3 * 0.8 is 2.4000000000000004)
product_above_decimal == {3, 6, 7, 12, 14, 17, 19}

\* candidate_years >= required_years * 0.8 as Python evaluates it, for
\* candidate_years the double nearest to a number of tenths
ge_80_percent(candidate_tenths, required_years) ==
    \/ candidate_tenths > 8 * required_years
    \/ /\ candidate_tenths = 8 * required_years
       /\ required_years \notin product_above_decimal

\* InnomaticsHybridScoringEngine._match_experience (candidate_years in tenths)
_match_experience(self, required_experience, candidate_years, work_experience) ==
    LET required_years == FirstInteger(required_experience)
    IN  IF required_years < 0 THEN TRUE
        ELSE IF required_years <= 1 THEN candidate_years >= 0
        ELSE ge_80_percent(candidate_years, required_years)

\* InnomaticsHybridScoringEngine._calculate_hard_match_score: the four
\* weighted parts (weights in tenths) times 60, at most 60
_calculate_hard_match_score(self, matched_must_have, total_must_have, matched_good_to_have, total_good_to_have, qualification_match, experience_match) ==
    LET c == self.config
        M == IF Len(total_must_have) > 1 THEN Len(total_must_have) ELSE 1
        G == IF Len(total_good_to_have) > 1 THEN Len(total_good_to_have) ELSE 1
        m == Len(matched_must_have)
        g == Len(matched_good_to_have)
        flat == (IF qualification_match THEN c.qualification_weight ELSE 0)
                + (IF experience_match THEN c.experience_weight ELSE 0)
    IN  FracMin(Frac(6 * (m * c.must_have_skills_weight * G
                          + g * c.good_to_have_skills_weight * M
                          + flat * M * G),
                     M * G), 60)

\* InnomaticsHybridScoringEngine._perform_hard_matching: the HardMatchResult
_perform_hard_matching(self, job_analysis, resume_analysis) ==
    LET candidate_skills ==
            resume_analysis.extracted_skills \o resume_analysis.technical_skills
        result(must_have, good_to_have, qualification_match, experience_match) ==
            [matched_must_have_skills |-> must_have.matched,
             matched_good_to_have_skills |-> good_to_have.matched,
             missing_must_have_skills |-> must_have.missing,
             missing_good_to_have_skills |-> good_to_have.missing,
             qualification_match |-> qualification_match,
             experience_match |-> experience_match,
             hard_match_score |->
                 _calculate_hard_match_score(self,
                     must_have.matched, job_analysis.must_have_skills,
                     good_to_have.matched, job_analysis.good_to_have_skills,
                     qualification_match, experience_match)]
    IN  result(_match_skills(self, job_analysis.must_have_skills, candidate_skills),
               _match_skills(self, job_analysis.good_to_have_skills, candidate_skills),
               _match_qualifications(self, job_analysis.qualifications,
                                     resume_analysis.education),
               _match_experience(self, job_analysis.experience_required,
                                 resume_analysis.total_experience_years,
                                 resume_analysis.work_experience))

(***************************************************************************)
(* InnomaticsHybridScoringEngine: soft matching.  The value of a cosine    *)
(* similarity is an outcome of the call that computes it, k / SimSteps     *)
(* with k (the parameter cosine) in 0..SimSteps.  The texts of the model   *)
(* are strings without English stop words: encode does not raise on them,  *)
(* and fit_transform raises exactly when they hold no token at all.        *)
(***************************************************************************)
SimSteps == 1        \* a cosine similarity is k / SimSteps, k in 0..SimSteps

\* a token of the TfidfVectorizer: two or more word characters in a row
HasToken(text) ==
    \E i \in 1..(Len(text) - 1) : IsAlnum(text[i]) /\ IsAlnum(text[i + 1])

\* InnomaticsHybridScoringEngine._calculate_tfidf_similarity: the value
\* returned and self after the call; fit_transform fits self.tfidf on the
\* two documents, or raises on an empty vocabulary and leaves it as it was
_calculate_tfidf_similarity(self, job_description, resume_text, cosine) ==
    IF ~HasToken(job_description) /\ ~HasToken(resume_text)
    THEN [value |-> Frac(0, 1), self |-> self]
    ELSE [value |-> FracMax(Frac(cosine, SimSteps), 0),
          self |-> [self EXCEPT !.tfidf = <<job_description, resume_text>>]]

\* InnomaticsHybridScoringEngine._calculate_semantic_similarity
_calculate_semantic_similarity(self, job_description, resume_text, cosine) ==
    IF self.sentence_model = None
    THEN _calculate_tfidf_similarity(self, job_description, resume_text, cosine)
    ELSE [value |-> FracMax(Frac(cosine, SimSteps), 0), self |-> self]

\* InnomaticsHybridScoringEngine._calculate_role_alignment
_calculate_role_alignment(self, job_responsibilities, work_experience, cosine) ==
    IF job_responsibilities = <<>> \/ work_experience = <<>>
    THEN [value |-> Frac(0, 1), self |-> self]
    ELSE LET experience_text ==
                 Join([i \in 1..Len(work_experience) |->
                          work_experience[i].role \o <<" ">>
                              \o work_experience[i].duration], <<" ">>)
             responsibilities_text == Join(job_responsibilities, <<" ">>)
         IN  _calculate_semantic_similarity(self, responsibilities_text,
                                            experience_text, cosine)

\* InnomaticsHybridScoringEngine._calculate_project_relevance
_calculate_project_relevance(self, job_keywords, candidate_projects, cosine) ==
    IF candidate_projects = <<>>
    THEN [value |-> Frac(0, 1), self |-> self]
    ELSE LET project_text ==
                 Join([i \in 1..Len(candidate_projects) |->
                          candidate_projects[i].title \o <<" ">>
                              \o candidate_projects[i].description \o <<" ">>
                              \o Join(candidate_projects[i].technologies, <<" ">>)],
                      <<" ">>)
             job_keywords_text == Join(job_keywords, <<" ">>)
         IN  _calculate_semantic_similarity(self, job_keywords_text,
                                            project_text, cosine)

\* x * k
FracTimes(x, k) == Frac(x.n * k, x.d)

\* the SoftMatchResult that _perform_soft_matching builds from the three
\* similarities s, r and p (each in 0..1): every one scaled to 40 points,
\* and their weighted sum scaled to 40 points
SoftMatchResult(self, s, r, p) ==
    [semantic_similarity_score |-> FracTimes(s, 40),
     role_alignment_score |-> FracTimes(r, 40),
     project_relevance_score |-> FracTimes(p, 40),
     overall_semantic_score |->
         Frac(4 * (s.n * self.config.semantic_similarity_weight * r.d * p.d
                   + r.n * self.config.role_alignment_weight * s.d * p.d
                   + p.n * self.config.project_relevance_weight * s.d * r.d),
              s.d * r.d * p.d)]

\* the rest of _perform_soft_matching once the semantic similarity call
\* has returned semantic = [value, self]
soft_matching_after_semantic(semantic, job_analysis, resume_analysis, cosines) ==
    LET role_alignment ==
            _calculate_role_alignment(semantic.self,
                job_analysis.role_responsibilities,
                resume_analysis.work_experience, cosines.role)
        project_relevance ==
            _calculate_project_relevance(role_alignment.self,
                job_analysis.technical_skills \o job_analysis.domain_keywords,
                resume_analysis.projects, cosines.project)
    IN  [raised |-> FALSE, self |-> project_relevance.self,
         value |-> SoftMatchResult(semantic.self, semantic.value,
                                   role_alignment.value, project_relevance.value)]

\* InnomaticsHybridScoringEngine._perform_soft_matching: the SoftMatchResult
\* and self after the call, or the AttributeError of reading an attribute
\* the job analysis does not have
_perform_soft_matching(self, job_analysis, resume_analysis, cosines) ==
    IF "job_description" \notin DOMAIN job_analysis
    THEN [raised |-> TRUE, self |-> self,
          error |-> "'JobDescriptionAnalysis' object has no attribute 'job_description'"]
    ELSE soft_matching_after_semantic(
             _calculate_semantic_similarity(self, job_analysis.job_description,
                 resume_analysis.parsed_text, cosines.semantic),
             job_analysis, resume_analysis, cosines)

\* a relevance score that adds the 60-point and the 40-point score without
\* weighting them again
_calculate_relevance_score_added(self, hard_match, soft_match) ==
    LET h == hard_match.hard_match_score
        o == soft_match.overall_semantic_score
    IN  FracMin(FracMax(Frac(h.n * o.d + o.n * h.d, h.d * o.d), 0), 100)

\* InnomaticsHybridScoringEngine._calculate_relevance_score
_calculate_relevance_score(self, hard_match, soft_match) ==
    LET h == hard_match.hard_match_score
        o == soft_match.overall_semantic_score
        relevance_score ==
            Frac(h.n * self.config.hard_match_weight * o.d
                     + o.n * self.config.soft_match_weight * h.d,
                 10 * h.d * o.d)
    IN  FracMin(FracMax(relevance_score, 0), 100)

\* InnomaticsHybridScoringEngine._identify_missing_elements: the entries,
\* each one its sentence template and the value formatted into it
_identify_missing_elements(self, job_analysis, resume_analysis, hard_match) ==
    LET missing_must == hard_match.missing_must_have_skills
        missing_good == hard_match.missing_good_to_have_skills
        critical == [i \in 1..Len(missing_must) |->
                        [element |-> "Critical skill", skill |-> missing_must[i]]]
        top == Take(missing_good, 3)
        preferred ==
            IF Len(missing_good) > Len(hard_match.matched_good_to_have_skills)
            THEN [i \in 1..Len(top) |->
                     [element |-> "Preferred skill", skill |-> top[i]]]
            ELSE <<>>
        certifications ==
            IF ~hard_match.qualification_match
            THEN <<[element |-> "Relevant technical certifications"]>>
            ELSE <<>>
        projects ==
            IF Len(resume_analysis.projects) < 2
            THEN <<[element |-> "More relevant projects demonstrating technical skills"]>>
            ELSE <<>>
        experience ==
            IF ~hard_match.experience_match
            THEN <<[element |-> "Additional experience in",
                    role_title |-> job_analysis.role_title]>>
            ELSE <<>>
    IN  critical \o preferred \o certifications \o projects \o experience

\* InnomaticsHybridScoringEngine._generate_improvement_suggestions: the
\* first five of the suggestions whose gates hold
_generate_improvement_suggestions(self, job_analysis, resume_analysis, hard_match, soft_match) ==
    LET missing_must == hard_match.missing_must_have_skills
        matched_must == hard_match.matched_must_have_skills
        is_certification(cert) == Contains(Keyword.certified, Lower(cert))
        relevant_certs == SelectSeq(job_analysis.qualifications, is_certification)
        priority ==
            IF missing_must # <<>>
            THEN <<[suggestion |-> "Priority: Learn", skills |-> Take(missing_must, 3),
                    role_title |-> job_analysis.role_title]>>
            ELSE <<>>
        ratio ==
            IF Len(matched_must) > 0 /\ missing_must # <<>>
            THEN <<[suggestion |-> "You have m out of n required skills",
                    m |-> Len(matched_must),
                    n |-> Len(job_analysis.must_have_skills)]>>
            ELSE <<>>
        projects ==
            IF Len(resume_analysis.projects) < 2
            THEN <<[suggestion |-> "Build 2-3 projects using",
                    skills |-> Take(job_analysis.technical_skills, 3)]>>
            ELSE <<>>
        experience ==
            IF /\ resume_analysis.total_experience_years < 10
               /\ ~Contains(Keyword.senior, Lower(job_analysis.role_title))
            THEN <<[suggestion |-> "Consider internships or freelance projects"]>>
            ELSE <<>>
        certification ==
            IF ~hard_match.qualification_match /\ relevant_certs # <<>>
            THEN <<[suggestion |-> "Consider getting certified in",
                    cert |-> relevant_certs[1]]>>
            ELSE <<>>
        soft_skills ==
            IF FracLt(soft_match.role_alignment_score, 30)
            THEN <<[suggestion |-> "Highlight your experience with teamwork"]>>
            ELSE <<>>
        structure ==
            IF resume_analysis.resume_quality_score < 7
            THEN <<[suggestion |-> "Improve resume structure"]>>
            ELSE <<>>
    IN  Take(priority \o ratio \o projects \o experience \o certification
                 \o soft_skills \o structure, 5)

\* steps 3 to 5 of evaluate_resume_relevance, from the results of the
\* hard and the soft matching (soft = [raised, self, value or error])
relevance_analysis(self, job_analysis, resume_analysis, hard_match_result, soft) ==
    IF soft.raised THEN soft
    ELSE LET soft_match_result == soft.value
             relevance_score ==
                 _calculate_relevance_score(self, hard_match_result, soft_match_result)
         IN  [raised |-> FALSE, self |-> soft.self,
              value |->
                [hard_match |-> hard_match_result,
                 soft_match |-> soft_match_result,
                 relevance_score |-> relevance_score,
                 fit_verdict |-> _determine_fit_verdict(self, relevance_score),
                 missing_elements |->
                     _identify_missing_elements(self, job_analysis,
                         resume_analysis, hard_match_result),
                 improvement_suggestions |->
                     _generate_improvement_suggestions(self, job_analysis,
                         resume_analysis, hard_match_result, soft_match_result)]]

\* InnomaticsHybridScoringEngine.evaluate_resume_relevance: the
\* RelevanceAnalysisResult and self after the call, or the exception that
\* leaves the call
evaluate_resume_relevance(self, job_analysis, resume_analysis, cosines) ==
    relevance_analysis(self, job_analysis, resume_analysis,
        _perform_hard_matching(self, job_analysis, resume_analysis),
        _perform_soft_matching(self, job_analysis, resume_analysis, cosines))

(***************************************************************************)
(* Specification Spec: the two engines evaluate a job/resume pair.  The    *)
(* pair is either the job_data / resume_data dicts that the evaluations    *)
(* router builds for EvaluationEngine.evaluate, or a JobDescriptionAnalysis*)
(* and a ResumeAnalysis for the hybrid engine.                             *)
(***************************************************************************)
MaxLater == 2        \* evaluate calls counted after the first one

Text ==
    [ Dev              |-> <<"D", "e", "v">>,
      Senior_Dev       |-> <<"S", "e", "n", "i", "o", "r", " ", "D", "e", "v">>,
      build_apis       |-> <<"b", "u", "i", "l", "d", " ", "a", "p", "i", "s">>,
      B_Tech           |-> <<"B", ".", "T", "e", "c", "h">>,
      Computer_Science |-> <<"C", "o", "m", "p", "u", "t", "e", "r", " ", "S", "c", "i", "e", "n", "c", "e">>,
      Diploma          |-> <<"D", "i", "p", "l", "o", "m", "a">>,
      Arts             |-> <<"A", "r", "t", "s">>,
      years_3          |-> <<"3", "+", " ", "y", "e", "a", "r", "s">>,
      years_0_1        |-> <<"0", "-", "1", " ", "y", "e", "a", "r", "s">>,
      Intern           |-> <<"I", "n", "t", "e", "r", "n">>,
      years_2          |-> <<"2", " ", "y", "e", "a", "r", "s">>,
      AWS_Certified    |-> <<"A", "W", "S", " ", "C", "e", "r", "t", "i", "f", "i", "e", "d">>,
      Bachelor         |-> <<"B", "a", "c", "h", "e", "l", "o", "r">>,
      MIT              |-> <<"M", "I", "T">>,
      Bachelor_degree  |-> <<"B", "a", "c", "h", "e", "l", "o", "r", " ", "d", "e", "g", "r", "e", "e">>,
      java             |-> <<"j", "a", "v", "a">>,
      dev_python       |-> <<"d", "e", "v", " ", "p", "y", "t", "h", "o", "n">>,
      Acme             |-> <<"A", "c", "m", "e">>,
      Shop             |-> <<"S", "h", "o", "p">>,
      web_shop         |-> <<"w", "e", "b", " ", "s", "h", "o", "p">>,
      github_com       |-> <<"g", "i", "t", "h", "u", "b", ".", "c", "o", "m">>,
      linkedin_com     |-> <<"l", "i", "n", "k", "e", "d", "i", "n", ".", "c", "o", "m">>,
      mail             |-> <<"a", "@", "b", ".", "i", "n">>,
      mail_and_phone   |-> <<"a", "@", "b", ".", "i", "n", " ", "9", "8", "7", "6", "5", "4",
                             "3", "2", "1", "0">> ]

EvalJobPool == {Raw.Python, Raw.JS}

EvalCandidatePool == {Raw.python_blank, Raw.JavaScript}

\* an education entry as a dict, and as a plain string
EducationDict == [type |-> "dict", degree |-> Text.Bachelor, institution |-> Text.MIT]

EducationStr == [type |-> "str", value |-> Text.B_Tech]

\* job_data as evaluate_resume builds it from a Job row: every skill list
\* with a stated qualification, and every qualifications value (None for
\* a row without one) with the shortest skill lists
JobData ==
    [title : {Text.Dev},
     description : {<<>>, Raw.Python},
     required_skills : SeqsUpTo(EvalJobPool, MaxRequired),
     preferred_skills : SeqsUpTo(EvalJobPool, MaxPreferred),
     qualifications : {Text.Bachelor_degree},
     experience_required : {Text.years_3}]
    \cup [title : {Text.Dev},
          description : {<<>>, Raw.Python},
          required_skills : {<<>>, <<Raw.Python>>},
          preferred_skills : {<<>>},
          qualifications : {None, <<>>, Text.Bachelor_degree},
          experience_required : {Text.years_3}]

\* resume_data as evaluate_resume builds it from a Resume row
ResumeData ==
    [text : {None, <<>>, Text.dev_python, Text.java},
     skills : SeqsUpTo(EvalCandidatePool, MaxCandidate),
     experience : {<<>>},
     education : {<<EducationDict>>},
     projects : {<<>>},
     certifications : {<<>>}]
    \cup [text : {Text.dev_python, Text.java},
          skills : {<<>>, <<Raw.python_blank>>},
          experience : {<<>>},
          education : {<<>>, <<EducationDict>>, <<EducationStr>>},
          projects : {<<>>},
          certifications : {<<>>}]

\* job_data and resume_data of test_evaluation_scoring, the two long texts
\* shortened: education, experience and projects are lists of plain strings
TestSample ==
    [job_data |->
        [title |-> Text.Senior_Dev, description |-> Text.dev_python,
         required_skills |-> ScenarioRequired,
         preferred_skills |-> <<Raw.React, Raw.AWS, Raw.Docker>>,
         qualifications |-> Text.Bachelor_degree,
         experience_required |-> Text.years_3],
     resume_data |->
        [text |-> Text.dev_python, skills |-> ScenarioSkills,
         experience |-> <<Text.years_2>>,
         education |-> <<[type |-> "str", value |-> Text.Bachelor]>>,
         projects |-> <<Text.web_shop>>,
         certifications |-> <<>>]]

\* a pair whose weighted score lies less than 0.005 below 45: three of five
\* required and one of three preferred skills matched, 8 of the 19 words of
\* the two texts shared
RoundingSample ==
    [job_data |->
        [title |-> <<"a">>,
         description |-> <<"b", " ", "c", " ", "d", " ", "e", " ", "f", " ", "g", " ", "h", " ", "i", " ", "j", " ", "k", " ", "l", " ", "m">>,
         required_skills |-> <<Raw.Python, Raw.Flask, Raw.HTML, Raw.Django, Raw.Docker>>,
         preferred_skills |-> <<Raw.CSS, Raw.React, Raw.PostgreSQL>>,
         qualifications |-> Text.Bachelor_degree,
         experience_required |-> Text.years_3],
     resume_data |->
        [text |-> <<"a", " ", "b", " ", "c", " ", "d", " ", "e", " ", "f", " ", "g", " ", "h", " ", "n", " ", "o", " ", "p", " ", "q", " ", "r", " ", "s">>,
         skills |-> <<Raw.Python, Raw.Flask, Raw.HTML, Raw.CSS>>,
         experience |-> <<>>,
         education |-> <<EducationDict>>,
         projects |-> <<>>,
         certifications |-> <<>>]]

EvalInputs ==
    [job_data : JobData, resume_data : ResumeData] \cup {TestSample, RoundingSample}

HybridJobPool == {Raw.Python, Raw.SQL}

\* the fields of a JobDescriptionAnalysis besides the two skill lists: a
\* job that asks for nothing, and one with qualifications, experience and
\* responsibilities
JobProfiles ==
    {[role_title |-> Text.Dev, company_name |-> Text.Acme,
      qualifications |-> <<>>, experience_required |-> <<>>,
      role_responsibilities |-> <<>>, technical_skills |-> <<Skill.python>>,
      soft_skills |-> <<>>, domain_keywords |-> <<>>, salary_range |-> None],
     [role_title |-> Text.Senior_Dev, company_name |-> Text.Acme,
      qualifications |-> <<Text.B_Tech, Text.AWS_Certified>>,
      experience_required |-> Text.years_3,
      role_responsibilities |-> <<Text.build_apis>>,
      technical_skills |-> <<Skill.python, Skill.sql>>,
      soft_skills |-> <<>>, domain_keywords |-> <<Skill.docker>>,
      salary_range |-> None]}

\* r with the additional field f
WithField(r, f, v) ==
    [k \in DOMAIN r \cup {f} |-> IF k = f THEN v ELSE r[k]]

\* the job analyses: the dataclass instances that parse_job_description
\* returns have no job_description attribute; a caller can set one
JobAnalyses ==
    LET with_skills ==
            {WithField(WithField(profile, "must_have_skills", must_have),
                       "good_to_have_skills", good_to_have) :
                profile \in JobProfiles,
                must_have \in SeqsUpTo(HybridJobPool, MaxRequired),
                good_to_have \in SeqsUpTo(HybridJobPool, MaxPreferred)}
    IN  with_skills
        \cup {WithField(j, "job_description", Text.dev_python) :
                  j \in {k \in with_skills : /\ Len(k.must_have_skills) <= 1
                                             /\ Len(k.good_to_have_skills) <= 1}}

WorkExperience ==
    [role |-> Text.Intern, company |-> Text.Acme, duration |-> Text.years_2, years |-> 20]

Project ==
    [title |-> Text.Shop, description |-> Text.web_shop, technologies |-> <<Skill.python>>]

\* three resumes: nothing extracted; a technical graduate with 2.4 years;
\* a non-technical diploma holder with two projects
ResumeAnalyses ==
    {[extracted_skills |-> <<>>, technical_skills |-> <<>>, education |-> <<>>,
      total_experience_years |-> 0, work_experience |-> <<>>, projects |-> <<>>,
      resume_quality_score |-> 3, parsed_text |-> Text.java],
     [extracted_skills |-> <<Skill.python, Skill.mysql>>, technical_skills |-> <<Skill.python>>,
      education |-> <<[degree |-> Text.B_Tech, institution |-> Text.MIT,
                       year |-> <<"2","0","2","0">>, field |-> Text.Computer_Science]>>,
      total_experience_years |-> 24, work_experience |-> <<WorkExperience>>,
      projects |-> <<Project>>,
      resume_quality_score |-> 8, parsed_text |-> Text.dev_python],
     [extracted_skills |-> <<Raw.SQL>>, technical_skills |-> <<>>,
      education |-> <<[degree |-> Text.Diploma, institution |-> Text.MIT,
                       year |-> <<"2","0","1","8">>, field |-> Text.Arts]>>,
      total_experience_years |-> 30, work_experience |-> <<WorkExperience>>,
      projects |-> <<Project, Project>>,
      resume_quality_score |-> 5, parsed_text |-> Text.web_shop]}

HybridInputs == [job_analysis : JobAnalyses, resume_analysis : ResumeAnalyses]

Init ==
    /\ Constructed
    /\ \/ args \in EvalInputs
       \/ args \in HybridInputs

\* evaluation_engine.evaluate(job_data, resume_data); the caller remembers
\* its first call and counts the calls after it
Evaluate ==
    /\ DOMAIN args = {"job_data", "resume_data"}
    /\ \E result \in {evaluate(engine, args.job_data, args.resume_data)},
          after \in {evaluate_effects(engine, args.job_data, args.resume_data)} :
           /\ op' = "evaluate"
           /\ ret' = result
           /\ engine' = after.self
           /\ args' = [job_data |-> after.job_data, resume_data |-> after.resume_data]
           /\ first' = IF first = <<>>
                       THEN <<[args |-> args, ret |-> result, later |-> 0]>>
                       ELSE <<[first[1] EXCEPT !.later = @ + 1]>>
    /\ UNCHANGED hybrid

\* the first evaluate call on the engine
EvaluateCall == first = <<>> /\ Evaluate

\* the cosines that the similarity call of one site of
\* _perform_soft_matching can give: only 0 stands for a call not made
SiteCosines(called) == IF called THEN 0..SimSteps ELSE {0}

\* scoring_engine._perform_hard_matching(job_analysis, resume_analysis)
PerformHardMatchingCall ==
    /\ DOMAIN args = {"job_analysis", "resume_analysis"}
    /\ op' = "_perform_hard_matching"
    /\ ret' = _perform_hard_matching(hybrid, args.job_analysis, args.resume_analysis)
    /\ UNCHANGED <<engine, hybrid, args, first>>

\* scoring_engine.evaluate_resume_relevance(jd_analysis, resume_analysis)
EvaluateResumeRelevanceCall ==
    /\ DOMAIN args = {"job_analysis", "resume_analysis"}
    /\ \E cosines \in
            [semantic : SiteCosines("job_description" \in DOMAIN args.job_analysis),
             role : SiteCosines(
                        /\ "job_description" \in DOMAIN args.job_analysis
                        /\ args.job_analysis.role_responsibilities # <<>>
                        /\ args.resume_analysis.work_experience # <<>>),
             project : SiteCosines(
                           /\ "job_description" \in DOMAIN args.job_analysis
                           /\ args.resume_analysis.projects # <<>>)] :
          \E call \in {evaluate_resume_relevance(hybrid, args.job_analysis,
                                                  args.resume_analysis, cosines)} :
              /\ op' = "evaluate_resume_relevance"
              /\ ret' = IF call.raised THEN Raised(call.error)
                        ELSE Returned(call.value)
              /\ hybrid' = call.self
    /\ UNCHANGED <<engine, args, first>>

Next == EvaluateCall \/ PerformHardMatchingCall \/ EvaluateResumeRelevanceCall

Spec == Init /\ [][Next]_vars

(* C1: under the default configuration every relevance_score that          *)
(* EvaluationEngine.evaluate returns (the error-fallback result included)  *)
(* and every one that evaluate_resume_relevance returns lies in 0..100.    *)
C1_RelevanceInRange ==
    /\ op = "evaluate" =>
        /\ FracGe(ret.relevance_score, 0)
        /\ ret.relevance_score.n <= 100 * ret.relevance_score.d
    /\ (op = "evaluate_resume_relevance" /\ ~ret.raised) =>
        /\ FracGe(ret.value.relevance_score, 0)
        /\ ret.value.relevance_score.n <= 100 * ret.value.relevance_score.d

\* the hybrid engine returned its highest score, 52: every skill matched,
\* qualification and experience matched, the three similarities at 1
C1_Witness ==
    /\ op = "evaluate_resume_relevance"
    /\ ~ret.raised
    /\ ret.value.hard_match.hard_match_score = Frac(60, 1)
    /\ FracEq(ret.value.relevance_score, Frac(52, 1))

C8_VacuousBucket ==
    op = "_perform_hard_matching" =>
        LET job == args.job_analysis
            c == hybrid.config
            M == Len(job.must_have_skills)
            G == Len(job.good_to_have_skills)
            must_part == IF M = 0 THEN Frac(c.must_have_skills_weight, 1)
                         ELSE Frac(Len(ret.matched_must_have_skills)
                                       * c.must_have_skills_weight, M)
            good_part == IF G = 0 THEN Frac(c.good_to_have_skills_weight, 1)
                         ELSE Frac(Len(ret.matched_good_to_have_skills)
                                       * c.good_to_have_skills_weight, G)
            flat == (IF ret.qualification_match THEN c.qualification_weight ELSE 0)
                    + (IF ret.experience_match THEN c.experience_weight ELSE 0)
            expected == Frac(6 * (must_part.n * good_part.d
                                  + good_part.n * must_part.d
                                  + flat * must_part.d * good_part.d),
                             must_part.d * good_part.d)
        IN  (M = 0 \/ G = 0) => FracEq(ret.hard_match_score, FracMin(expected, 60))

(***************************************************************************)
(* Specification SpecSeq: a sequence of evaluate calls on the one          *)
(* EvaluationEngine of the evaluations router, on pairs prepared one after *)
(* the other.                                                              *)
(***************************************************************************)
SeqInputs ==
    [job_data :
        [title : {Text.Dev},
         description : {Raw.Python},
         required_skills : {<<Raw.Python>>, <<Raw.JS>>},
         preferred_skills : {<<>>},
         qualifications : {None, Text.Bachelor_degree},
         experience_required : {Text.years_3}],
     resume_data :
        [text : {Text.dev_python, Text.java},
         skills : {<<Raw.python_blank>>},
         experience : {<<>>},
         education : {<<EducationDict>>, <<EducationStr>>},
         projects : {<<>>},
         certifications : {<<>>}]]

InitSeq ==
    /\ Constructed
    /\ args \in SeqInputs

\* evaluate_resume builds job_data and resume_data for the next pair
PrepareCall ==
    /\ args' \in SeqInputs
    /\ op' = "none"
    /\ ret' = None
    /\ UNCHANGED <<engine, hybrid, first>>

\* a later evaluate call on the engine
EvaluateAgainCall ==
    /\ first # <<>>
    /\ first[1].later < MaxLater
    /\ Evaluate

NextSeq == PrepareCall \/ EvaluateCall \/ EvaluateAgainCall

SpecSeq == InitSeq /\ [][NextSeq]_vars

C11_QualificationKeywords ==
    op = "_perform_hard_matching" =>
        LET education == args.resume_analysis.education
            text == Lower(Join([k \in 1..Len(education) |->
                                   education[k].degree \o <<" ">> \o education[k].field],
                               <<" ">>))
            degree_level == \E k \in 1..Len(degree_level_keywords) :
                                Contains(degree_level_keywords[k], text)
            technical_field == \E k \in 1..Len(technical_field_keywords) :
                                   Contains(technical_field_keywords[k], text)
        IN  ret.qualification_match =
                \/ args.job_analysis.qualifications = <<>>
                \/ degree_level /\ technical_field

\* C12: _match_experience is true when the requirement holds no integer or
\* an integer R <= 1, and for R >= 2 exactly when
\* 10 * candidate_years >= 8 * R
C12_ExperienceTolerance ==
    op = "_perform_hard_matching" =>
        LET R == FirstInteger(args.job_analysis.experience_required)
            candidate_tenths == args.resume_analysis.total_experience_years
        IN  ret.experience_match =
                \/ R <= 1
                \/ candidate_tenths >= 8 * R

(***************************************************************************)
(* Claims about the weights with which the engines combine their scores.   *)
(***************************************************************************)
\* C14: both engines weigh the hard match 0.6 and the soft / semantic match
\* 0.4, the two summing to 1; an EvaluationEngine built from the shipped
\* settings combines its two scores with 0.6 and 0.4 in evaluate
C14_DefaultWeights ==
    /\ hybrid.config.hard_match_weight = 6
    /\ hybrid.config.soft_match_weight = 4
    /\ engine.hard_match_weight = 6
    /\ engine.semantic_match_weight = 4
    /\ op = "evaluate" /\ ret.feedback[1].part # "error" =>
           LET combined(hard, semantic) ==
                   Round2(Frac(6 * hard.n * semantic.d + 4 * semantic.n * hard.d,
                               10 * hard.d * semantic.d))
           IN  ret.relevance_score =
                   combined(calculate_hard_match_score(args.job_data,
                                                       args.resume_data).score,
                            calculate_semantic_match_score(args.job_data,
                                                           args.resume_data))

(***************************************************************************)
(* Specification SpecParts: the steps of EvaluationEngine.evaluate called  *)
(* one at a time.  The semantic and the hard-match step are called on a    *)
(* job_data / resume_data pair whose texts the caller may replace between  *)
(* calls; generate_feedback is called on skill lists of every length up    *)
(* to MaxFeedbackSkills.                                                   *)
(***************************************************************************)
MaxFeedbackSkills == 7      \* length of the lists generate_feedback is given

\* resume texts: None, empty, one blank, and texts that share one, every or
\* no token with a job text
ResumeTexts == {None, <<>>, <<" ">>, Text.dev_python, Text.java, Text.web_shop}

PartsInputs ==
    [job_data :
        [title : {<<>>, Text.Dev},
         description : {<<>>, Raw.Python, Text.web_shop},
         required_skills : {<<Raw.Python, Raw.JS>>},
         preferred_skills : {<<Raw.SQL>>},
         qualifications : {Text.Bachelor_degree},
         experience_required : {Text.years_3}],
     resume_data :
        [text : ResumeTexts,
         skills : {<<>>, <<Raw.python_blank>>, <<Raw.JavaScript, Raw.SQL>>},
         experience : {<<>>},
         education : {<<EducationDict>>},
         projects : {<<>>},
         certifications : {<<>>}]]

\* the skills that the lists given to generate_feedback are cut from
FeedbackSkills ==
    <<Skill.python, Skill.django, Skill.flask, Skill.sql, Skill.html, Skill.css,
      Skill.docker, Skill.react, Skill.aws, Skill.mysql>>

\* the arguments of generate_feedback: scores on both sides of 45 and 70
FeedbackInputs ==
    [relevance_score : {Frac(0, 1), Frac(4499, 100), Frac(45, 1), Frac(6999, 100),
                        Frac(70, 1)},
     matched_skills : {Take(FeedbackSkills, k) : k \in 0..MaxFeedbackSkills},
     missing_skills : {Take(FeedbackSkills, k) : k \in 0..MaxFeedbackSkills},
     suitability : {"High", "Medium", "Low"}]

InitParts ==
    /\ Constructed
    /\ \/ args \in PartsInputs
       \/ args \in FeedbackInputs

\* engine.calculate_semantic_match_score(job_data, resume_data)
SemanticScoreCall ==
    /\ DOMAIN args = {"job_data", "resume_data"}
    /\ op' = "calculate_semantic_match_score"
    /\ ret' = calculate_semantic_match_score(args.job_data, args.resume_data)
    /\ UNCHANGED <<engine, hybrid, args, first>>

\* engine.calculate_hard_match_score(job_data, resume_data); the caller
\* remembers its first call and counts the calls after it
HardScoreCall ==
    /\ DOMAIN args = {"job_data", "resume_data"}
    /\ IF first = <<>> THEN TRUE ELSE first[1].later < MaxLater
    /\ \E result \in {calculate_hard_match_score(args.job_data, args.resume_data)} :
           /\ op' = "calculate_hard_match_score"
           /\ ret' = result
           /\ first' = IF first = <<>>
                       THEN <<[args |-> args, ret |-> result, later |-> 0]>>
                       ELSE <<[first[1] EXCEPT !.later = @ + 1]>>
    /\ UNCHANGED <<engine, hybrid, args>>

\* the caller replaces the title and description of the job and the text
\* of the resume, and nothing else
ChangeTextsCall ==
    /\ DOMAIN args = {"job_data", "resume_data"}
    /\ \E title \in {<<>>, Text.Dev}, description \in {<<>>, Raw.Python, Text.web_shop},
          text \in ResumeTexts :
           args' = [job_data |-> [args.job_data EXCEPT !.title = title,
                                                       !.description = description],
                    resume_data |-> [args.resume_data EXCEPT !.text = text]]
    /\ op' = "none"
    /\ ret' = None
    /\ UNCHANGED <<engine, hybrid, first>>

\* engine.generate_feedback(relevance_score, matched_skills, missing_skills,
\* suitability)
GenerateFeedbackCall ==
    /\ DOMAIN args = {"relevance_score", "matched_skills", "missing_skills",
                      "suitability"}
    /\ op' = "generate_feedback"
    /\ ret' = generate_feedback(args.relevance_score, args.matched_skills,
                                args.missing_skills, args.suitability)
    /\ UNCHANGED <<engine, hybrid, args, first>>

NextParts ==
    SemanticScoreCall \/ HardScoreCall \/ ChangeTextsCall \/ GenerateFeedbackCall

SpecParts == InitParts /\ [][NextParts]_vars

\* C13: calculate_semantic_match_score returns 100 * |J \cap R| / |J \cup R|
\* over the lower-cased blank-separated tokens J of the job's title and
\* description and R of the resume text; the value is in [0, 100], and 0
\* when the resume text is empty or the texts share no token; and the
\* hard-match result of a pair is the one of the first call whatever texts
\* the pair has been given since
C13_SemanticJaccard ==
    /\ op = "calculate_semantic_match_score" =>
           /\ FracGe(ret, 0)
           /\ ret.n <= 100 * ret.d
           /\ args.resume_data.text \in {None, <<>>} => ret.n = 0
           /\ args.resume_data.text # None =>
                  LET shared(J, R) ==
                          /\ J \cap R = {} => ret.n = 0
                          /\ J \cup R # {} =>
                                 FracEq(ret, Frac(100 * Cardinality(J \cap R),
                                                  Cardinality(J \cup R)))
                  IN  shared(Range(Split(Lower(args.job_data.title \o <<" ">>
                                                  \o args.job_data.description))),
                             Range(Split(Lower(args.resume_data.text))))
    /\ op = "calculate_hard_match_score" =>
           /\ ret.score = first[1].ret.score
           /\ ret.matched_skills = first[1].ret.matched_skills
           /\ ret.missing_skills = first[1].ret.missing_skills

\* a hard-match call after the texts were replaced, on a pair with a
\* matched skill whose texts now share one token of two
C13_Witness ==
    /\ op = "calculate_hard_match_score"
    /\ first[1].later > 0
    /\ first[1].args.resume_data.text # args.resume_data.text
    /\ first[1].args.job_data.description # args.job_data.description
    /\ ret.matched_skills # <<>>
    /\ FracEq(calculate_semantic_match_score(args.job_data, args.resume_data),
              Frac(50, 1))

\* C17: the text of generate_feedback names at most 5 matched skills and at
\* most 3 missing skills, opens with the sentence of the suitability tier
\* and closes with the recommendation of the relevance-score band
C17_FeedbackNamesSkills ==
    op = "generate_feedback" =>
        LET named(parts) ==
                UNION {Range(ret[k].skills) :
                           k \in {i \in 1..Len(ret) : ret[i].part \in parts}}
        IN  /\ Cardinality(named({"matched"})) <= 5
            /\ Cardinality(named({"missing", "additional"})) <= 3
            /\ ret[1] = [part |-> "assessment", tier |-> args.suitability]
            /\ ret[Len(ret)] =
                   [part |-> "recommendation",
                    band |-> IF FracLt(args.relevance_score, 45) THEN "Low"
                             ELSE IF FracLt(args.relevance_score, 70) THEN "Medium"
                             ELSE "High"]

(***************************************************************************)
(* Specification SpecAdvice: _identify_missing_elements and                *)
(* _generate_improvement_suggestions, called as evaluate_resume_relevance  *)
(* calls them: on a job analysis, a resume analysis, the HardMatchResult   *)
(* of _perform_hard_matching for the two, and a SoftMatchResult.           *)
(***************************************************************************)
\* job analyses with up to four must-have and good-to-have skills
AdviceJobs ==
    [role_title : {Text.Dev, Text.Senior_Dev},
     company_name : {Text.Acme},
     must_have_skills : {<<>>, <<Raw.Python>>, <<Raw.Python, Raw.Docker>>,
                         <<Raw.Docker, Raw.React, Raw.AWS, Raw.HTML>>},
     good_to_have_skills : {<<>>, <<Raw.SQL>>, <<Raw.Python, Raw.Django>>,
                            <<Raw.Django, Raw.Flask, Raw.HTML, Raw.CSS>>},
     qualifications : {<<>>, <<Text.B_Tech, Text.AWS_Certified>>},
     experience_required : {<<>>, Text.years_3},
     role_responsibilities : {<<Text.build_apis>>},
     technical_skills : {<<Skill.python, Skill.sql>>},
     soft_skills : {<<>>},
     domain_keywords : {<<>>},
     salary_range : {None}]

\* the resumes of ResumeAnalyses and a self-taught beginner: one skill, no
\* education entry, half a year of experience, no project
AdviceResumes ==
    ResumeAnalyses
    \cup {[extracted_skills |-> <<Skill.python>>, technical_skills |-> <<Skill.python>>,
           education |-> <<>>, total_experience_years |-> 5,
           work_experience |-> <<>>, projects |-> <<>>,
           resume_quality_score |-> 4, parsed_text |-> Text.dev_python]}

InitAdvice ==
    /\ Constructed
    /\ \E job_analysis \in AdviceJobs, resume_analysis \in AdviceResumes,
          role \in 0..SimSteps :
           args = [job_analysis |-> job_analysis,
                   resume_analysis |-> resume_analysis,
                   hard_match |-> _perform_hard_matching(hybrid, job_analysis,
                                                         resume_analysis),
                   soft_match |-> SoftMatchResult(hybrid, Frac(0, 1),
                                      Frac(role, SimSteps), Frac(0, 1))]

\* self._identify_missing_elements(job_analysis, resume_analysis, hard_match)
IdentifyMissingElementsCall ==
    /\ op' = "_identify_missing_elements"
    /\ ret' = _identify_missing_elements(hybrid, args.job_analysis,
                  args.resume_analysis, args.hard_match)
    /\ UNCHANGED <<engine, hybrid, args, first>>

\* self._generate_improvement_suggestions(job_analysis, resume_analysis,
\* hard_match, soft_match)
GenerateImprovementSuggestionsCall ==
    /\ op' = "_generate_improvement_suggestions"
    /\ ret' = _generate_improvement_suggestions(hybrid, args.job_analysis,
                  args.resume_analysis, args.hard_match, args.soft_match)
    /\ UNCHANGED <<engine, hybrid, args, first>>

NextAdvice == IdentifyMissingElementsCall \/ GenerateImprovementSuggestionsCall

SpecAdvice == InitAdvice /\ [][NextAdvice]_vars

\* C15: _identify_missing_elements returns, in this order, a critical-skill
\* entry for every missing must-have skill; a preferred-skill entry for each
\* of the first 3 missing good-to-have skills if the missing ones outnumber
\* the matched ones; the certifications note iff the qualification match is
\* false; the projects note iff the resume has fewer than 2 projects; the
\* experience note for the role iff the experience match is false
C15_MissingElements ==
    op = "_identify_missing_elements" =>
        LET hard_match == args.hard_match
            critical == Len(hard_match.missing_must_have_skills)
            preferred ==
                IF Len(hard_match.missing_good_to_have_skills)
                       > Len(hard_match.matched_good_to_have_skills)
                THEN IF Len(hard_match.missing_good_to_have_skills) < 3
                     THEN Len(hard_match.missing_good_to_have_skills) ELSE 3
                ELSE 0
            notes ==
                (IF hard_match.qualification_match THEN <<>>
                 ELSE <<[element |-> "Relevant technical certifications"]>>)
                \o (IF Len(args.resume_analysis.projects) >= 2 THEN <<>>
                    ELSE <<[element |->
                        "More relevant projects demonstrating technical skills"]>>)
                \o (IF hard_match.experience_match THEN <<>>
                    ELSE <<[element |-> "Additional experience in",
                            role_title |-> args.job_analysis.role_title]>>)
        IN  /\ Len(ret) = critical + preferred + Len(notes)
            /\ \A i \in 1..critical :
                   ret[i] = [element |-> "Critical skill",
                             skill |-> hard_match.missing_must_have_skills[i]]
            /\ \A i \in 1..preferred :
                   ret[critical + i] =
                       [element |-> "Preferred skill",
                        skill |-> hard_match.missing_good_to_have_skills[i]]
            /\ \A i \in 1..Len(notes) : ret[critical + preferred + i] = notes[i]

\* four critical skills, the first three of four missing preferred skills,
\* and the three notes
C15_Witness ==
    /\ op = "_identify_missing_elements"
    /\ Len(args.hard_match.missing_must_have_skills) = 4
    /\ Len(args.hard_match.missing_good_to_have_skills) = 4
    /\ ~args.hard_match.qualification_match
    /\ ~args.hard_match.experience_match
    /\ Len(ret) = 10

\* C16: _generate_improvement_suggestions returns at most 5 suggestions, in
\* the priority order missing must-have skills, matched-to-total ratio,
\* projects, internship / experience, certification, soft skills, resume
\* structure, each present only when its gate holds: the suggestions
\* returned are the first 5 of those whose gate holds
C16_SuggestionsCapped ==
    op = "_generate_improvement_suggestions" =>
        LET hard_match == args.hard_match
            certified(cert) == Contains(Keyword.certified, Lower(cert))
            gates ==
                <<hard_match.missing_must_have_skills # <<>>,
                  /\ Len(hard_match.matched_must_have_skills) > 0
                  /\ hard_match.missing_must_have_skills # <<>>,
                  Len(args.resume_analysis.projects) < 2,
                  /\ args.resume_analysis.total_experience_years < 10
                  /\ ~Contains(Keyword.senior, Lower(args.job_analysis.role_title)),
                  /\ ~hard_match.qualification_match
                  /\ SelectSeq(args.job_analysis.qualifications, certified) # <<>>,
                  FracLt(args.soft_match.role_alignment_score, 30),
                  args.resume_analysis.resume_quality_score < 7>>
            priority ==
                <<"Priority: Learn", "You have m out of n required skills",
                  "Build 2-3 projects using",
                  "Consider internships or freelance projects",
                  "Consider getting certified in",
                  "Highlight your experience with teamwork",
                  "Improve resume structure">>
            open(k) == gates[k]
            due == SelectSeq([k \in 1..7 |-> k], open)
        IN  /\ Len(ret) <= 5
            /\ Len(ret) = IF Len(due) > 5 THEN 5 ELSE Len(due)
            /\ \A i \in 1..Len(ret) : ret[i].suggestion = priority[due[i]]

\* all seven gates hold: the soft-skill and the structure suggestion are
\* dropped
C16_Witness ==
    /\ op = "_generate_improvement_suggestions"
    /\ Len(args.hard_match.matched_must_have_skills) > 0
    /\ args.hard_match.missing_must_have_skills # <<>>
    /\ FracLt(args.soft_match.role_alignment_score, 30)
    /\ args.resume_analysis.resume_quality_score < 7
    /\ Len(ret) = 5
    /\ ret[4].suggestion = "Consider internships or freelance projects"
    /\ ret[5].suggestion = "Consider getting certified in"

(***************************************************************************)
(* The resume parsers: InnomaticsResumeAnalyzer.analyze_resume and         *)
(* ResumeParser.extract_text / parse_resume.  A file is its name and the   *)
(* text that the extractor returns for it ("" when the extractor caught an *)
(* exception).  The result of a call says which extractor it ran; of the   *)
(* record a parser returns, the model keeps the cleaned text, from which   *)
(* every other field is computed.  File paths hold no directory separator; *)
(* the texts hold blanks at their ends only and none of the artifacts that *)
(* cleaning removes, so that cleaning a text is strip().                   *)
(***************************************************************************)
min_text_length == 100      \* analyze_resume: len(text.strip()) < 100

\* the file extensions that the parsers name
Ext ==
    [pdf  |-> <<".", "p", "d", "f">>,
     docx |-> <<".", "d", "o", "c", "x">>,
     doc  |-> <<".", "d", "o", "c">>]

\* str.endswith
EndsWith(s, suffix) ==
    /\ Len(s) >= Len(suffix)
    /\ SubSeq(s, Len(s) - Len(suffix) + 1, Len(s)) = suffix

\* os.path.splitext(path)[1]: from the last dot on, unless only dots
\* precede it
splitext(path) ==
    LET dots == {i \in 1..Len(path) : path[i] = "."}
        last == CHOOSE i \in dots : \A j \in dots : j <= i
    IN  IF dots = {} THEN <<>>
        ELSE IF \A j \in 1..(last - 1) : path[j] = "." THEN <<>>
        ELSE SubSeq(path, last, Len(path))

\* a parser call that raised error / returned value after running the
\* extractor extraction ("none" when it ran no extractor)
ParseRaised(error, extraction) ==
    [raised |-> TRUE, error |-> error, extraction |-> extraction]

ParseReturned(value, extraction) ==
    [raised |-> FALSE, value |-> value, extraction |-> extraction]

\* InnomaticsResumeAnalyzer.analyze_resume; extracted is the text that the
\* extractor returns for the file
analyze_resume(self, file_path, filename, extracted) ==
    LET analysis(text, extraction) ==
            IF text = <<>> \/ Len(Strip(text)) < min_text_length
            THEN ParseRaised("Resume text too short or extraction failed", extraction)
            ELSE ParseReturned([parsed_text |-> Strip(text)], extraction)
    IN  IF EndsWith(Lower(filename), Ext.pdf) THEN analysis(extracted, "pdf")
        ELSE IF \/ EndsWith(Lower(filename), Ext.docx)
                \/ EndsWith(Lower(filename), Ext.doc)
        THEN analysis(extracted, "docx")
        ELSE ParseRaised("Unsupported file format", "none")

\* ResumeParser.extract_text
extract_text(self, file_path, extracted) ==
    LET ext == Lower(splitext(file_path))
    IN  IF ext = Ext.pdf THEN ParseReturned(extracted, "pdf")
        ELSE IF ext \in {Ext.docx, Ext.doc} THEN ParseReturned(extracted, "docx")
        ELSE ParseRaised("Unsupported file format", "none")

\* ResumeParser.parse_resume: every exception is raised again as
\* "Failed to parse resume: ..."
parse_resume(self, file_path, extracted) ==
    LET parsed(text) ==
            IF text.raised
            THEN ParseRaised(<<"Failed to parse resume", text.error>>, text.extraction)
            ELSE IF text.value = <<>>
            THEN ParseRaised(<<"Failed to parse resume",
                               "No text could be extracted from the file">>,
                             text.extraction)
            ELSE ParseReturned([text |-> Strip(text.value)], text.extraction)
    IN  parsed(extract_text(self, file_path, extracted))

(***************************************************************************)
(* Specification SpecParse: a parser is called on an uploaded file.        *)
(***************************************************************************)
Filenames ==
    {<<"c", "v", ".", "p", "d", "f">>,
     <<"C", "V", ".", "P", "D", "F">>,
     <<"c", "v", ".", "d", "o", "c", "x">>,
     <<"c", "v", ".", "D", "o", "c", "x">>,
     <<"c", "v", ".", "d", "o", "c">>,
     <<"c", "v", ".", "t", "x", "t">>,
     <<"c", "v">>,
     <<"c", "v", ".", "p", "d", "f", ".", "t", "x", "t">>}

\* the texts an extractor returns: n letters between p and q blanks, for
\* lengths around the minimum; the empty text is the failed extraction
ExtractedTexts ==
    {[i \in 1..(p + n + q) |-> IF i <= p \/ i > p + n THEN " " ELSE "x"] :
        n \in {0, 40, min_text_length - 1, min_text_length},
        p \in {0, 1}, q \in {0, 1}}

InitParse ==
    /\ Constructed
    /\ args \in [filename : Filenames, extracted : ExtractedTexts]

\* resume_analyzer.analyze_resume(file_path, file.filename)
AnalyzeResumeCall ==
    /\ op' = "analyze_resume"
    /\ ret' = analyze_resume("resume_analyzer", args.filename, args.filename,
                             args.extracted)
    /\ UNCHANGED <<engine, hybrid, args, first>>

\* resume_parser.extract_text(file_path)
ExtractTextCall ==
    /\ op' = "extract_text"
    /\ ret' = extract_text("resume_parser", args.filename, args.extracted)
    /\ UNCHANGED <<engine, hybrid, args, first>>

\* resume_parser.parse_resume(file_path)
ParseResumeCall ==
    /\ op' = "parse_resume"
    /\ ret' = parse_resume("resume_parser", args.filename, args.extracted)
    /\ UNCHANGED <<engine, hybrid, args, first>>

NextParse == AnalyzeResumeCall \/ ExtractTextCall \/ ParseResumeCall

SpecParse == InitParse /\ [][NextParse]_vars

\* C18: analyze_resume and extract_text fail with the unsupported-format
\* error, having run no extractor, for every file whose extension,
\* lower-cased, is neither .pdf nor .docx
C18_UnsupportedFormat ==
    /\ op \in {"analyze_resume", "extract_text"}
    /\ Lower(splitext(args.filename)) \notin {Ext.pdf, Ext.docx}
    => /\ ret.raised
       /\ ret.error = "Unsupported file format"
       /\ ret.extraction = "none"

\* C19: when the extractor returns fewer than 100 characters, analyze_resume
\* and parse_resume raise an error and return no record
C19_ShortTextRejected ==
    /\ op \in {"analyze_resume", "parse_resume"}
    /\ ret.extraction # "none"
    /\ Len(args.extracted) < 100
    => ret.raised

(***************************************************************************)
(* InnomaticsJDParser: the job description parser.  A job text is a string *)
(* whose only whitespace is the blank, so a cleaned text holds no line     *)
(* feed and the blank-line terminator of a section never matches.  Skill   *)
(* lists that the code builds with list(set(...)) are sets here; a slice   *)
(* of such a list is any subset of the slice's length, since the order of  *)
(* a set of strings is not fixed by the program.                           *)
(***************************************************************************)
fallback_limit == 10

\* self.technical_skills_db, the categories one after the other
technical_skills_db ==
    <<<<"p", "y", "t", "h", "o", "n">>, <<"j", "a", "v", "a">>,
      <<"j", "a", "v", "a", "s", "c", "r", "i", "p", "t">>,
      <<"t", "y", "p", "e", "s", "c", "r", "i", "p", "t">>,
      <<"c", "+", "+">>, <<"c", "#">>, <<"g", "o">>, <<"r", "u", "s", "t">>,
      <<"k", "o", "t", "l", "i", "n">>, <<"s", "w", "i", "f", "t">>,
      <<"s", "c", "a", "l", "a">>, <<"r">>, <<"m", "a", "t", "l", "a", "b">>,
      <<"p", "h", "p">>, <<"r", "u", "b", "y">>, <<"p", "e", "r", "l">>,
      <<"s", "h", "e", "l", "l", " ", "s", "c", "r", "i", "p", "t", "i", "n", "g">>,
      <<"b", "a", "s", "h">>, <<"r", "e", "a", "c", "t">>,
      <<"a", "n", "g", "u", "l", "a", "r">>,
      <<"v", "u", "e", ".", "j", "s">>, <<"n", "o", "d", "e", "j", "s">>,
      <<"e", "x", "p", "r", "e", "s", "s">>,
      <<"d", "j", "a", "n", "g", "o">>, <<"f", "l", "a", "s", "k">>,
      <<"s", "p", "r", "i", "n", "g", " ", "b", "o", "o", "t">>,
      <<"h", "t", "m", "l">>, <<"c", "s", "s">>, <<"s", "c", "s", "s">>,
      <<"s", "a", "s", "s">>,
      <<"b", "o", "o", "t", "s", "t", "r", "a", "p">>,
      <<"t", "a", "i", "l", "w", "i", "n", "d">>,
      <<"j", "q", "u", "e", "r", "y">>,
      <<"w", "e", "b", "p", "a", "c", "k">>, <<"m", "y", "s", "q", "l">>,
      <<"p", "o", "s", "t", "g", "r", "e", "s", "q", "l">>,
      <<"m", "o", "n", "g", "o", "d", "b">>, <<"r", "e", "d", "i", "s">>,
      <<"e", "l", "a", "s", "t", "i", "c", "s", "e", "a", "r", "c", "h">>,
      <<"c", "a", "s", "s", "a", "n", "d", "r", "a">>,
      <<"d", "y", "n", "a", "m", "o", "d", "b">>,
      <<"s", "q", "l", "i", "t", "e">>, <<"o", "r", "a", "c", "l", "e">>,
      <<"s", "q", "l", " ", "s", "e", "r", "v", "e", "r">>,
      <<"n", "e", "o", "4", "j">>,
      <<"f", "i", "r", "e", "b", "a", "s", "e">>, <<"a", "w", "s">>,
      <<"a", "z", "u", "r", "e">>, <<"g", "c", "p">>,
      <<"g", "o", "o", "g", "l", "e", " ", "c", "l", "o", "u", "d">>,
      <<"d", "o", "c", "k", "e", "r">>,
      <<"k", "u", "b", "e", "r", "n", "e", "t", "e", "s">>,
      <<"j", "e", "n", "k", "i", "n", "s">>,
      <<"t", "e", "r", "r", "a", "f", "o", "r", "m">>,
      <<"a", "n", "s", "i", "b", "l", "e">>, <<"h", "e", "l", "m">>,
      <<"o", "p", "e", "n", "s", "h", "i", "f", "t">>,
      <<"c", "l", "o", "u", "d", "f", "o", "r", "m", "a", "t", "i", "o", "n">>,
      <<"m", "a", "c", "h", "i", "n", "e", " ", "l", "e", "a", "r", "n", "i", "n", "g">>,
      <<"d", "e", "e", "p", " ", "l", "e", "a", "r", "n", "i", "n", "g">>,
      <<"t", "e", "n", "s", "o", "r", "f", "l", "o", "w">>,
      <<"p", "y", "t", "o", "r", "c", "h">>,
      <<"s", "c", "i", "k", "i", "t", "-", "l", "e", "a", "r", "n">>,
      <<"p", "a", "n", "d", "a", "s">>, <<"n", "u", "m", "p", "y">>,
      <<"m", "a", "t", "p", "l", "o", "t", "l", "i", "b">>,
      <<"s", "e", "a", "b", "o", "r", "n">>,
      <<"j", "u", "p", "y", "t", "e", "r">>,
      <<"a", "p", "a", "c", "h", "e", " ", "s", "p", "a", "r", "k">>,
      <<"h", "a", "d", "o", "o", "p">>, <<"k", "a", "f", "k", "a">>,
      <<"a", "i", "r", "f", "l", "o", "w">>,
      <<"a", "n", "d", "r", "o", "i", "d">>, <<"i", "o", "s">>,
      <<"r", "e", "a", "c", "t", " ", "n", "a", "t", "i", "v", "e">>,
      <<"f", "l", "u", "t", "t", "e", "r">>,
      <<"x", "a", "m", "a", "r", "i", "n">>, <<"i", "o", "n", "i", "c">>,
      <<"c", "o", "r", "d", "o", "v", "a">>,
      <<"s", "e", "l", "e", "n", "i", "u", "m">>,
      <<"j", "u", "n", "i", "t">>, <<"t", "e", "s", "t", "n", "g">>,
      <<"p", "y", "t", "e", "s", "t">>, <<"j", "e", "s", "t">>,
      <<"c", "y", "p", "r", "e", "s", "s">>,
      <<"p", "o", "s", "t", "m", "a", "n">>, <<"j", "m", "e", "t", "e", "r">>>>

\* the words of the parser's regular expressions
Re ==
    [ must        |-> <<"m", "u", "s", "t">>,
      have        |-> <<"h", "a", "v", "e">>,
      required    |-> <<"r", "e", "q", "u", "i", "r", "e", "d">>,
      skill       |-> <<"s", "k", "i", "l", "l">>,
      mandatory   |-> <<"m", "a", "n", "d", "a", "t", "o", "r", "y">>,
      essential   |-> <<"e", "s", "s", "e", "n", "t", "i", "a", "l">>,
      good        |-> <<"g", "o", "o", "d">>,
      to          |-> <<"t", "o">>,
      nice        |-> <<"n", "i", "c", "e">>,
      preferred   |-> <<"p", "r", "e", "f", "e", "r", "r", "e", "d">>,
      desired     |-> <<"d", "e", "s", "i", "r", "e", "d">>,
      plus        |-> <<"p", "l", "u", "s">>,
      additional  |-> <<"a", "d", "d", "i", "t", "i", "o", "n", "a", "l">>,
      bonus       |-> <<"b", "o", "n", "u", "s">>,
      job         |-> <<"j", "o", "b">>,
      description |-> <<"d", "e", "s", "c", "r", "i", "p", "t", "i", "o", "n">>,
      about       |-> <<"a", "b", "o", "u", "t">>,
      the         |-> <<"t", "h", "e">>,
      role        |-> <<"r", "o", "l", "e">>,
      blank_line  |-> <<"\n", "\n">> ]

\* the parser instance after __init__ (nlp is read by no extractor below)
InnomaticsJDParserInit == [technical_skills_db |-> technical_skills_db]

\* the least element of a non-empty set of positions
Least(S) == CHOOSE x \in S : \A y \in S : x <= y

\* \s* from position i of s: the position of the first non-blank at or
\* after i, Len(s) + 1 when there is none
SkipSpaces(s, i) ==
    CHOOSE j \in i..(Len(s) + 1) :
        /\ \A k \in i..(j - 1) : IsSpace(s[k])
        /\ IF j = Len(s) + 1 THEN TRUE ELSE ~IsSpace(s[j])

\* the words of a pattern, joined by \s*, matched at position i of the
\* lower-cased text s (re.IGNORECASE): the position after the match, 0 when
\* the pattern does not match at i
RECURSIVE MatchAt(_, _, _)
MatchAt(words, s, i) ==
    IF i + Len(words[1]) - 1 > Len(s) THEN 0
    ELSE IF SubSeq(s, i, i + Len(words[1]) - 1) # words[1] THEN 0
    ELSE IF Len(words) = 1 THEN i + Len(words[1])
    ELSE MatchAt(Tail(words), s, SkipSpaces(s, i + Len(words[1])))

\* an alternation (a|b|...) at position i of s: the first alternative that
\* matches decides; 0 when none does
FirstMatch(alternatives, s, i) ==
    LET hits == {k \in 1..Len(alternatives) : MatchAt(alternatives[k], s, i) # 0}
    IN  IF hits = {} THEN 0 ELSE MatchAt(alternatives[Least(hits)], s, i)

\* the head of an indicator pattern at position i of s: one of its
\* alternatives, then s? where the pattern has it, then :? (both greedy, the
\* rest of the pattern matches any text); the position after it, or 0
IndicatorAt(indicator, s, i) ==
    LET optional(e, c) ==
            IF e = 0 \/ e > Len(s) THEN e ELSE IF s[e] = c THEN e + 1 ELSE e
        plural(e) == IF indicator.plural THEN optional(e, "s") ELSE e
    IN  optional(plural(FirstMatch(indicator.head, s, i)), ":")

\* re.finditer(pattern, text, re.IGNORECASE | re.DOTALL) from position from
\* on: group 1 of every match as <<first, last>> positions.  The lazy group
\* ends before the first position where a terminator matches, or at the end
\* of the text; the next match is searched after the terminator.
RECURSIVE finditer(_, _, _)
finditer(indicator, s, from) ==
    LET group(b, stops) ==
            IF stops = {} THEN {<<b, Len(s)>>}
            ELSE {<<b, Least(stops) - 1>>} \cup
                 finditer(indicator, s, FirstMatch(indicator.stop, s, Least(stops)))
        match(b) ==
            group(b, {j \in b..Len(s) : FirstMatch(indicator.stop, s, j) # 0})
        search(starts) ==
            IF starts = {} THEN {} ELSE match(IndicatorAt(indicator, s, Least(starts)))
    IN  search({i \in from..Len(s) : IndicatorAt(indicator, s, i) # 0})

\* the characters of s at the positions of K, in order
KeepAt(s, K) ==
    LET build(rank) ==
            [k \in 1..Cardinality(K) |-> s[CHOOSE i \in K : rank[i] = k]]
    IN  build([i \in K |-> Cardinality({j \in K : j <= i})])

\* re.sub(pattern, '', text, flags=re.IGNORECASE) for an artifact pattern
\* (words joined by \s*, then :?); two matches of one artifact cannot overlap
re_sub_artifact(words, text) ==
    LET after(e, s) ==
            IF e = 0 \/ e > Len(s) THEN e ELSE IF s[e] = ":" THEN e + 1 ELSE e
        removed(s) ==
            {k \in 1..Len(s) : \E i \in 1..k : k < after(MatchAt(words, s, i), s)}
    IN  KeepAt(text, (1..Len(text)) \ removed(Lower(text)))

\* InnomaticsJDParser._clean_text
_clean_text(text) ==
    LET collapsed(t) ==
            KeepAt(t, {i \in 1..Len(t) :
                          IF i > 1 /\ IsSpace(t[i]) THEN ~IsSpace(t[i - 1]) ELSE TRUE})
    IN  re_sub_artifact(<<Re.about, Re.the, Re.role>>,
            re_sub_artifact(<<Re.job, Re.description>>, collapsed(Strip(text))))

\* InnomaticsJDParser._extract_skills_from_text: the skills of the database
\* that occur in the lower-cased text, the items after a bullet character
\* ("-" or "*"; the third one, U+2022, is not in the alphabet of the model's
\* texts) and the dotted words followed by a comma or by the end of the text
_extract_skills_from_text(self, text) ==
    LET n == Len(text)
        word(i) ==
            IF i < 1 \/ i > n THEN FALSE ELSE IsAlnum(text[i]) \/ text[i] = "_"
        word_end(p) ==
            CHOOSE e \in p..n : (\A k \in p..e : word(k)) /\ ~word(e + 1)
        RECURSIVE chain_end(_)
        chain_end(p) ==
            IF word(word_end(p) + 2) /\ text[word_end(p) + 1] = "."
            THEN chain_end(word_end(p) + 2)
            ELSE word_end(p)
        chain_start(p) ==
            /\ word(p)
            /\ ~word(p - 1)
            /\ ~(word(p - 2) /\ text[p - 1] = ".")
        followed(j) == IF j = n + 1 THEN TRUE ELSE text[j] = ","
        bullets == {i \in 1..n : text[i] \in {"-", "*"}}
        item(b, later) ==
            Strip(SubSeq(text, b + 1, IF later = {} THEN n ELSE Least(later) - 1))
        bullet_points == {item(b, {j \in bullets : j > b}) : b \in bullets}
        comma_separated ==
            {SubSeq(text, p, chain_end(p)) :
                p \in {q \in 1..n : chain_start(q)
                                    /\ followed(SkipSpaces(text, chain_end(q) + 1))}}
        in_database(text_lower) ==
            {skill \in Range(self.technical_skills_db) : Contains(skill, text_lower)}
    IN  in_database(Lower(text))
        \cup {Lower(skill) : skill \in {m \in bullet_points \cup comma_separated : Len(m) > 2}}

\* must_have_indicators: head, optional plural s, section terminators
must_have_indicators ==
    <<[head |-> <<<<Re.must, Re.have>>>>, plural |-> FALSE,
       stop |-> <<<<Re.good, Re.to, Re.have>>, <<Re.nice, Re.to, Re.have>>,
                  <<Re.preferred>>, <<Re.desired>>, <<Re.plus>>, <<Re.blank_line>>>>],
      [head |-> <<<<Re.required, Re.skill>>>>, plural |-> TRUE,
       stop |-> <<<<Re.preferred>>, <<Re.desired>>, <<Re.plus>>,
                  <<Re.nice, Re.to, Re.have>>, <<Re.blank_line>>>>],
      [head |-> <<<<Re.mandatory>>>>, plural |-> FALSE,
       stop |-> <<<<Re.preferred>>, <<Re.desired>>, <<Re.plus>>, <<Re.blank_line>>>>],
      [head |-> <<<<Re.essential>>>>, plural |-> FALSE,
       stop |-> <<<<Re.preferred>>, <<Re.desired>>, <<Re.plus>>, <<Re.blank_line>>>>]>>

\* good_to_have_indicators
good_to_have_indicators ==
    <<[head |-> <<<<Re.good, Re.to, Re.have>>, <<Re.nice, Re.to, Re.have>>,
                  <<Re.preferred>>, <<Re.desired>>, <<Re.plus>>>>,
       plural |-> FALSE, stop |-> <<<<Re.blank_line>>>>],
      [head |-> <<<<Re.additional, Re.skill>>>>, plural |-> TRUE,
       stop |-> <<<<Re.blank_line>>>>],
      [head |-> <<<<Re.bonus>>>>, plural |-> FALSE, stop |-> <<<<Re.blank_line>>>>]>>

\* the loop over the indicator patterns: the skills of group 1 of every match
indicated_skills(self, indicators, text) ==
    LET skills(g) == _extract_skills_from_text(self, SubSeq(text, g[1], g[2]))
        matches(indicator, s) == UNION {skills(g) : g \in finditer(indicator, s, 1)}
    IN  UNION {matches(indicators[k], Lower(text)) : k \in 1..Len(indicators)}

\* set(l[:k]) for a list l made from the set S
FirstOf_all(S, k) == {S}

FirstOf(S, k) ==
    {T \in SUBSET S : Cardinality(T) = IF Cardinality(S) < k THEN Cardinality(S) ELSE k}

\* InnomaticsJDParser._extract_must_have_skills: the sets it can return
_extract_must_have_skills(self, text) ==
    LET result(must_have_skills) ==
            IF must_have_skills # {} THEN {must_have_skills}
            ELSE FirstOf(_extract_skills_from_text(self, text), fallback_limit)
    IN  result(indicated_skills(self, must_have_indicators, text))

\* InnomaticsJDParser._extract_good_to_have_skills
_extract_good_to_have_skills(self, text) ==
    indicated_skills(self, good_to_have_indicators, text)

\* InnomaticsJDParser.parse_job_description: the analyses it can return (the
\* skill sets and the two fields passed through; role_title is not empty)
parse_job_description(self, jd_text, role_title, company_name) ==
    LET analysis(cleaned_text) ==
            {[role_title |-> role_title,
              company_name |-> company_name,
              must_have_skills |-> must_have_skills,
              good_to_have_skills |-> _extract_good_to_have_skills(self, cleaned_text)] :
                must_have_skills \in _extract_must_have_skills(self, cleaned_text)}
    IN  analysis(_clean_text(jd_text))

\* create_job: the rows it can store
create_job(job) ==
    {[title |-> job.title,
      company |-> job.company,
      description |-> job.description,
      required_skills |-> Range(job.required_skills) \cup jd_analysis.must_have_skills,
      preferred_skills |-> Range(job.preferred_skills) \cup jd_analysis.good_to_have_skills] :
        jd_analysis \in parse_job_description(InnomaticsJDParserInit, job.description,
                                              job.title, job.company)}

(***************************************************************************)
(* Specification SpecJD: a job posting is parsed, or created.              *)
(***************************************************************************)
JobText ==
    [ free_text        |-> <<"W", "e", " ", "n", "e", "e", "d", " ", "a", " ", "b", "a", "c",
          "k", "e", "n", "d", " ", "e", "n", "g", "i", "n", "e", "e", "r">>,
      comma_list       |-> <<"p", "y", "t", "h", "o", "n", ",", " ", "d", "j", "a", "n", "g",
          "o", " ", "a", "n", "d", " ", "t", "e", "a", "m", "w", "o", "r",
          "k">>,
      artifact         |-> <<"J", "o", "b", " ", "D", "e", "s", "c", "r", "i", "p", "t", "i",
          "o", "n", ":", " ", "B", "u", "i", "l", "d", " ", "A", "P", "I",
          "s", " ", "w", "i", "t", "h", " ", "P", "y", "t", "h", "o", "n",
          " ", "a", "n", "d", " ", "D", "j", "a", "n", "g", "o">>,
      about_role       |-> <<"A", "b", "o", "u", "t", " ", "t", "h", "e", " ", "r", "o", "l",
          "e", ":", " ", "t", "e", "s", "t", " ", "A", "P", "I", "s", " ",
          "w", "i", "t", "h", " ", "p", "y", "t", "e", "s", "t", ",", " ",
          "j", "e", "s", "t">>,
      many_skills      |-> <<"p", "y", "t", "h", "o", "n", " ", "j", "a", "v", "a", " ", "r",
          "e", "a", "c", "t", " ", "f", "l", "a", "s", "k", " ", "m", "y",
          "s", "q", "l", " ", "r", "e", "d", "i", "s", " ", "a", "w", "s",
          " ", "d", "o", "c", "k", "e", "r", " ", "n", "u", "m", "p", "y",
          " ", "k", "a", "f", "k", "a">>,
      no_skills        |-> <<"S", "a", "l", "e", "s", " ", "j", "o", "b", " ", "i", "n", " ",
          "D", "e", "l", "h", "i", ".">>,
      spaced           |-> <<" ", " ", "P", "y", "t", "h", "o", "n", " ", " ", " ", "a", "n",
          "d", " ", " ", "S", "Q", "L", " ", " ">>,
      dotted           |-> <<"W", "o", "r", "k", " ", "o", "n", " ", "v", "u", "e", ".", "j",
          "s", ",", " ", "c", "+", "+", ",", " ", "a", ".", "b", " ", "c",
          ",", " ", "x", ".", ".", "y", ",", " ", "e", "n", "d", ".">>,
      bullets          |-> <<"S", "k", "i", "l", "l", "s", ":", " ", "a", "-", "b", ",", " ",
          "*", "c", "+", "+", "*", " ", "a", "n", "d", " ", "*", "n", "o",
          "d", "e">>,
      year_range       |-> <<"2", "-", "5", " ", "y", "e", "a", "r", "s", " ", "o", "f", " ",
          "e", "x", "p", "e", "r", "i", "e", "n", "c", "e", " ", "i", "n",
          " ", "j", "a", "v", "a">>,
      empty            |-> <<>>,
      must_section     |-> <<"M", "u", "s", "t", " ", "h", "a", "v", "e", ":", " ", "p", "y",
          "t", "h", "o", "n", ",", " ", "d", "j", "a", "n", "g", "o", ".",
          " ", "G", "o", "o", "d", " ", "t", "o", " ", "h", "a", "v", "e",
          ":", " ", "d", "o", "c", "k", "e", "r">>,
      required_section |-> <<"R", "e", "q", "u", "i", "r", "e", "d", " ", "s", "k", "i", "l",
          "l", "s", ":", " ", "p", "y", "t", "h", "o", "n", " ", "P", "r",
          "e", "f", "e", "r", "r", "e", "d", ":", " ", "a", "w", "s", ",",
          " ", "k", "a", "f", "k", "a">>,
      must_many        |-> <<"M", "u", "s", "t", " ", "h", "a", "v", "e", " ", "p", "y", "t",
          "h", "o", "n", " ", "j", "a", "v", "a", " ", "r", "e", "a", "c",
          "t", " ", "f", "l", "a", "s", "k", " ", "m", "y", "s", "q", "l",
          " ", "r", "e", "d", "i", "s", " ", "a", "w", "s", " ", "d", "o",
          "c", "k", "e", "r", " ", "n", "u", "m", "p", "y", " ", "k", "a",
          "f", "k", "a">>,
      essentially      |-> <<"e", "s", "s", "e", "n", "t", "i", "a", "l", "l", "y", " ", "a",
          " ", "s", "u", "r", "p", "l", "u", "s">>,
      bonus            |-> <<"b", "o", "n", "u", "s", " ", "p", "o", "i", "n", "t", "s", " ",
          "f", "o", "r", " ", "r", "u", "s", "t">> ]

\* JobCreate: the posting a recruiter submits
JobPostings ==
    [title : {Text.Dev}, company : {Text.Acme},
     description : {JobText[f] : f \in DOMAIN JobText},
     required_skills : {<<>>, <<Raw.Python>>},
     preferred_skills : {<<>>, <<Skill.docker>>}]

InitJD ==
    /\ Constructed
    /\ args \in JobPostings

\* jd_parser.parse_job_description(jd_text=job.description, ...)
ParseJobDescriptionCall ==
    /\ op' = "parse_job_description"
    /\ \E jd_analysis \in parse_job_description(InnomaticsJDParserInit, args.description,
                                                args.title, args.company) :
            ret' = Returned(jd_analysis)
    /\ first' = <<>>
    /\ UNCHANGED <<engine, hybrid, args>>

\* POST /jobs/
CreateJobCall ==
    /\ op' = "create_job"
    /\ \E db_job \in create_job(args) : ret' = Returned(db_job)
    /\ first' = <<>>
    /\ UNCHANGED <<engine, hybrid, args>>

\* the processes that parse the same text a second time: the one of the first
\* call, or another worker process with its own string hash seed
Processes == {"same", "other"}

\* the same job text is parsed again.  In the process of the first call the
\* strings hash as before and the sets are built by the same insertions, so
\* every list(set(...)) has the order it had; another process orders them by
\* its own hashes.
ParseJobDescriptionAgainCall ==
    /\ op = "parse_job_description"
    /\ op' = "parse_job_description_again"
    /\ \E process \in Processes :
         \E jd_analysis \in IF process = "same" THEN {ret.value}
                             ELSE parse_job_description(InnomaticsJDParserInit,
                                      args.description, args.title, args.company) :
            /\ first' = <<[args |-> args, ret |-> ret, process |-> process]>>
            /\ ret' = Returned(jd_analysis)
    /\ UNCHANGED <<engine, hybrid, args>>

NextJD == ParseJobDescriptionCall \/ CreateJobCall \/ ParseJobDescriptionAgainCall

SpecJD == InitJD /\ [][NextJD]_vars

\* a text in which no must-have and no good-to-have indicator occurs
FreeText(text) ==
    \A k \in 1..(Len(must_have_indicators) + Len(good_to_have_indicators)) :
        \A i \in 1..Len(text) :
            IndicatorAt((must_have_indicators \o good_to_have_indicators)[k],
                        Lower(text), i) = 0

\* the skills extracted from the whole (cleaned) text of the posting
ExtractedFromPosting ==
    _extract_skills_from_text(InnomaticsJDParserInit, _clean_text(args.description))

\* C20: for a job text without must-have and good-to-have indicator,
\* parse_job_description returns at most 10 must-have skills, all of them
\* extracted from the whole text, at least one when a skill is extracted,
\* and no good-to-have skill; the row create_job stores adds exactly these
\* to the recruiter's lists
C20_FallbackMustHave ==
    /\ op = "parse_job_description" /\ FreeText(args.description)
       => /\ Cardinality(ret.value.must_have_skills) <= 10
          /\ ret.value.must_have_skills \subseteq ExtractedFromPosting
          /\ ExtractedFromPosting # {} => ret.value.must_have_skills # {}
          /\ ret.value.good_to_have_skills = {}
    /\ op = "create_job" /\ FreeText(args.description)
       => /\ Cardinality(ret.value.required_skills \ Range(args.required_skills)) <= 10
          /\ ret.value.required_skills
                \subseteq Range(args.required_skills) \cup ExtractedFromPosting
          /\ ExtractedFromPosting # {} => ret.value.required_skills # {}
          /\ ret.value.preferred_skills = Range(args.preferred_skills)

\* more than 10 skills are extracted from a free text, and 10 are returned
C20_Witness ==
    /\ op = "parse_job_description"
    /\ FreeText(args.description)
    /\ Cardinality(ExtractedFromPosting) > 10
    /\ Cardinality(ret.value.must_have_skills) = 10
    /\ ret.value.good_to_have_skills = {}

\* C21: parsing the same job text a second time, in the same process or in
\* another one, returns the must-have and good-to-have skill sets of the
\* first call
C21_ParseDeterministic ==
    op = "parse_job_description_again"
    => /\ ret.value.must_have_skills = first[1].ret.value.must_have_skills
       /\ ret.value.good_to_have_skills = first[1].ret.value.good_to_have_skills

(***************************************************************************)
(* InnomaticsResumeAnalyzer: the quality score of an analysed resume.  The *)
(* extractors of analyze_resume are given by their results: the cleaned    *)
(* text and the lists extracted from it.                                   *)
(***************************************************************************)
long_text_length == 500

\* InnomaticsResumeAnalyzer._calculate_resume_quality
_calculate_resume_quality(self, text, skills, experience, education, projects) ==
    LET point(check) == IF check THEN 1 ELSE 0
        ten_digits ==
            \E i \in 1..(Len(text) - 9) : \A k \in 0..9 : IsDigit(text[i + k])
        score ==
            point(Len(text) > long_text_length)
            + point(Contains(<<"@">>, text) /\ ten_digits)
            + point(Len(skills.technical_skills) >= 5)
            + point(Len(skills.all_skills) >= 10)
            + point(experience # <<>>)
            + point(experience # <<>> /\ Len(experience) >= 2)
            + point(education # <<>>)
            + point(projects # <<>>)
            + point(projects # <<>> /\ Len(projects) >= 2)
            + point(Contains(Text.github_com, text) \/ Contains(Text.linkedin_com, text))
    IN  IF score < 10 THEN score ELSE 10

\* analyze_resume after the extraction: the analysis built from the cleaned
\* text and from what the extractors found in it
analyze_cleaned_text(self, cleaned_text, found) ==
    [extracted_skills |-> found.skills.all_skills,
     technical_skills |-> found.skills.technical_skills,
     work_experience |-> found.work_experience,
     education |-> found.education,
     projects |-> found.projects,
     resume_quality_score |->
         _calculate_resume_quality(self, cleaned_text, found.skills,
                                   found.work_experience, found.education,
                                   found.projects),
     parsed_text |-> cleaned_text]

(***************************************************************************)
(* Specification SpecQuality: a resume text that passed the length check   *)
(* is analysed.                                                            *)
(***************************************************************************)
\* cleaned texts of 100, 500 and 501 characters: contact data or a profile
\* link, then filler
QualityTexts ==
    {head \o [i \in 1..(n - Len(head)) |-> "x"] :
        head \in {<<>>, Text.mail_and_phone, Text.mail, Text.github_com,
                  Text.linkedin_com, Text.mail_and_phone \o Text.github_com},
        n \in {min_text_length, long_text_length, long_text_length + 1}}

\* what the extractors return: skills (the technical ones among all), work
\* experience, education and projects
FoundInResume ==
    [skills : {[technical_skills |-> Take(FeedbackSkills, t),
                all_skills |-> Take(FeedbackSkills, a)] :
                  t \in {0, 4, 5}, a \in {5, 9, 10}}
              \cup {[technical_skills |-> <<>>, all_skills |-> <<>>]},
     work_experience : {<<>>, <<WorkExperience>>, <<WorkExperience, WorkExperience>>},
     education : {<<>>, <<EducationDict>>},
     projects : {<<>>, <<Project>>, <<Project, Project>>}]

InitQuality ==
    /\ Constructed
    /\ args \in [cleaned_text : QualityTexts, found : FoundInResume]

\* self._calculate_resume_quality(cleaned_text, skills, work_experience,
\* education, projects)
CalculateResumeQualityCall ==
    /\ op' = "_calculate_resume_quality"
    /\ ret' = _calculate_resume_quality("resume_analyzer", args.cleaned_text,
                  args.found.skills, args.found.work_experience,
                  args.found.education, args.found.projects)
    /\ UNCHANGED <<engine, hybrid, args, first>>

\* resume_analyzer.analyze_resume(file_path, file.filename) from the cleaning on
AnalyzeCleanedTextCall ==
    /\ op' = "analyze_resume"
    /\ ret' = analyze_cleaned_text("resume_analyzer", args.cleaned_text, args.found)
    /\ UNCHANGED <<engine, hybrid, args, first>>

NextQuality == CalculateResumeQualityCall \/ AnalyzeCleanedTextCall

SpecQuality == InitQuality /\ [][NextQuality]_vars

\* the presence checks of _calculate_resume_quality that a resume satisfies
SatisfiedChecks ==
    {c \in 1..10 :
        \/ c = 1 /\ Len(args.cleaned_text) > 500
        \/ c = 2 /\ Contains(<<"@">>, args.cleaned_text)
                 /\ \E i \in 1..(Len(args.cleaned_text) - 9) :
                        \A k \in 0..9 : IsDigit(args.cleaned_text[i + k])
        \/ c = 3 /\ Len(args.found.skills.technical_skills) >= 5
        \/ c = 4 /\ Len(args.found.skills.all_skills) >= 10
        \/ c = 5 /\ Len(args.found.work_experience) >= 1
        \/ c = 6 /\ Len(args.found.work_experience) >= 2
        \/ c = 7 /\ Len(args.found.education) >= 1
        \/ c = 8 /\ Len(args.found.projects) >= 1
        \/ c = 9 /\ Len(args.found.projects) >= 2
        \/ c = 10 /\ \/ Contains(Text.github_com, args.cleaned_text)
                     \/ Contains(Text.linkedin_com, args.cleaned_text)}

\* C22: the resume_quality_score of every analysis analyze_resume returns
\* lies between 1 and 10 and is the number of satisfied presence checks
C22_QualityScoreRange ==
    op = "analyze_resume"
    => /\ ret.resume_quality_score >= 1
       /\ ret.resume_quality_score <= 10
       /\ ret.resume_quality_score = Cardinality(SatisfiedChecks)

(***************************************************************************)
(* Specification SpecConcurrent: two threads call evaluate_resume_relevance*)
(* on the one scoring_engine.  A similarity call that takes the TF-IDF     *)
(* path is two steps on the shared vectorizer: fit_transform first fits    *)
(* self.tfidf on the call's two documents, then transforms them with what  *)
(* self.tfidf holds at that moment.  A transform that finds the vectorizer *)
(* fitted on other documents raises (the fallback value 0.0) or weights    *)
(* with the foreign statistics: any cosine can come out.  ret holds the    *)
(* two threads: the site the thread is at, the cosines obtained so far and *)
(* the result once returned.                                               *)
(***************************************************************************)
Threads == {1, 2}

Sites == <<"semantic", "role", "project">>

\* the two documents that the similarity call of a site of
\* _perform_soft_matching compares, <<>> when the site makes no call
SimilarityDocuments(job_analysis, resume_analysis, site) ==
    IF site = "semantic"
    THEN <<job_analysis.job_description, resume_analysis.parsed_text>>
    ELSE IF site = "role"
    THEN IF job_analysis.role_responsibilities = <<>>
            \/ resume_analysis.work_experience = <<>>
         THEN <<>>
         ELSE <<Join(job_analysis.role_responsibilities, <<" ">>),
                Join([i \in 1..Len(resume_analysis.work_experience) |->
                         resume_analysis.work_experience[i].role \o <<" ">>
                             \o resume_analysis.work_experience[i].duration],
                     <<" ">>)>>
    ELSE IF resume_analysis.projects = <<>>
         THEN <<>>
         ELSE <<Join(job_analysis.technical_skills \o job_analysis.domain_keywords,
                     <<" ">>),
                Join([i \in 1..Len(resume_analysis.projects) |->
                         resume_analysis.projects[i].title \o <<" ">>
                             \o resume_analysis.projects[i].description \o <<" ">>
                             \o Join(resume_analysis.projects[i].technologies, <<" ">>)],
                     <<" ">>)>>

\* the calls: a job analysis with a job_description, a resume analysis and
\* the cosine k / SimSteps that each similarity call of the pair gives when
\* nothing interferes
ConcurrentCalls ==
    {[job_analysis |-> job_analysis, resume_analysis |-> resume_analysis,
      cosines |-> [s \in {"semantic", "role", "project"} |->
                     IF SimilarityDocuments(job_analysis, resume_analysis, s) = <<>>
                     THEN 0 ELSE k]] :
        job_analysis \in {j \in JobAnalyses : /\ "job_description" \in DOMAIN j
                                              /\ j.must_have_skills = <<Raw.Python>>
                                              /\ j.good_to_have_skills = <<>>},
        resume_analysis \in ResumeAnalyses,
        k \in 0..SimSteps}

InitConcurrent ==
    /\ engine = EvaluationEngineInit
    /\ \E sentence_model \in SentenceModels : hybrid = HybridEngineInit(sentence_model)
    /\ op = "none"
    /\ first = <<>>
    /\ args \in [Threads -> ConcurrentCalls]
    /\ ret = [t \in Threads |->
                 [site |-> 1, fitted |-> FALSE, done |-> FALSE,
                  cosines |-> [semantic |-> 0, role |-> 0, project |-> 0]]]

\* the documents of the site thread t is at
DocumentsOf(t) ==
    SimilarityDocuments(args[t].job_analysis, args[t].resume_analysis,
                        Sites[ret[t].site])

\* thread t leaves its site with the cosine k
SiteDone(t, k) ==
    ret' = [ret EXCEPT ![t] = [@ EXCEPT !.cosines[Sites[ret[t].site]] = k,
                                        !.site = @ + 1, !.fitted = FALSE]]

\* a site without similarity call (0.0), or sentence_model.encode and the
\* cosine of the two embeddings
SimilarityStep(t) ==
    /\ ret[t].site <= Len(Sites)
    /\ IF DocumentsOf(t) = <<>> THEN TRUE ELSE hybrid.sentence_model # None
    /\ op' = "similarity"
    /\ SiteDone(t, args[t].cosines[Sites[ret[t].site]])
    /\ UNCHANGED <<engine, hybrid, args, first>>

\* self.tfidf.fit_transform([job_description, resume_text]), first half:
\* the vocabulary and the idf weights of self.tfidf are set from the two
\* documents; documents without any token raise, and the site gives 0.0
FitStep(t) ==
    /\ ret[t].site <= Len(Sites)
    /\ ~ret[t].fitted
    /\ IF DocumentsOf(t) = <<>> THEN FALSE ELSE hybrid.sentence_model = None
    /\ op' = "fit"
    /\ IF ~HasToken(DocumentsOf(t)[1]) /\ ~HasToken(DocumentsOf(t)[2])
       THEN SiteDone(t, 0) /\ hybrid' = hybrid
       ELSE /\ hybrid' = [hybrid EXCEPT !.tfidf = DocumentsOf(t)]
            /\ ret' = [ret EXCEPT ![t].fitted = TRUE]
    /\ UNCHANGED <<engine, args, first>>

\* second half: the documents are weighted with the idf that self.tfidf
\* holds now, and the cosine of the two rows is returned
TransformStep(t) ==
    /\ ret[t].site <= Len(Sites)
    /\ ret[t].fitted
    /\ op' = "transform"
    /\ \E k \in IF hybrid.tfidf = DocumentsOf(t)
                THEN {args[t].cosines[Sites[ret[t].site]]}
                ELSE 0..SimSteps :
           SiteDone(t, k)
    /\ UNCHANGED <<engine, hybrid, args, first>>

\* the call of thread t returns its RelevanceAnalysisResult
ReturnStep(t) ==
    /\ ret[t].site > Len(Sites)
    /\ ~ret[t].done
    /\ op' = "evaluate_resume_relevance"
    /\ \E call \in {evaluate_resume_relevance(hybrid, args[t].job_analysis,
                        args[t].resume_analysis, ret[t].cosines)} :
           ret' = [ret EXCEPT ![t] =
                      [site |-> @.site, fitted |-> FALSE, done |-> TRUE,
                       cosines |-> @.cosines,
                       result |-> IF call.raised THEN Raised(call.error)
                                  ELSE Returned(call.value)]]
    /\ UNCHANGED <<engine, hybrid, args, first>>

NextConcurrent ==
    \E t \in Threads :
        SimilarityStep(t) \/ FitStep(t) \/ TransformStep(t) \/ ReturnStep(t)

SpecConcurrent == InitConcurrent /\ [][NextConcurrent]_vars

\* what the call of thread t returns when it runs alone on the engine
ResultAlone(t) ==
    LET result(call) ==
            IF call.raised THEN Raised(call.error) ELSE Returned(call.value)
    IN  result(evaluate_resume_relevance(HybridEngineInit(hybrid.sentence_model),
                   args[t].job_analysis, args[t].resume_analysis, args[t].cosines))

\* C23: two concurrent evaluate_resume_relevance calls write no state of the
\* shared engine, and each returns what it returns when it runs alone
C23_ConcurrentCallsIndependent ==
    /\ hybrid = HybridEngineInit(hybrid.sentence_model)
    /\ \A t \in Threads : ret[t].done => ret[t].result = ResultAlone(t)

(***************************************************************************)
(* Specification SpecBulk: evaluate_resume_for_job and                     *)
(* bulk_evaluate_resumes of innomatics_main.py, over a database with one   *)
(* job and three stored resumes.                                           *)
(***************************************************************************)
MaxResumeIds == 3    \* longest resume_ids list of a bulk request

\* the result of an endpoint: the exception that leaves it or the returned
\* value, with the database session and the scoring engine after the call
EndpointRaised(status_code, detail, db, self) ==
    [raised |-> TRUE, error |-> [status_code |-> status_code, detail |-> detail],
     db |-> db, self |-> self]

EndpointReturned(value, db, self) ==
    [raised |-> FALSE, value |-> value, db |-> db, self |-> self]

\* the JobDescriptionAnalysis that evaluate_resume_for_job passes on: the
\* parser's analysis (job.parsed) with four fields replaced by the columns of
\* the job row; no job_description attribute is set
jd_analysis_of(job) ==
    [k \in DOMAIN job.parsed \cup {"must_have_skills", "good_to_have_skills"} |->
        IF k \in {"must_have_skills", "good_to_have_skills", "qualifications",
                  "experience_required"}
        THEN job[k] ELSE job.parsed[k]]

\* POST /api/evaluate/{job_id}/{resume_id}
evaluate_resume_for_job(self, db, job_id, resume_id) ==
    IF job_id \notin DOMAIN db.jobs
    THEN EndpointRaised(404, "Job description not found", db, self)
    ELSE IF resume_id \notin DOMAIN db.resumes
    THEN EndpointRaised(404, "Resume not found", db, self)
    ELSE LET job == db.jobs[job_id]
             resume == db.resumes[resume_id]
             failed(e, scoring) ==
                 EndpointRaised(500, <<"Evaluation failed", e>>, db, scoring)
             saved(relevance_result, scoring) ==
                 LET db_analysis ==
                         [id |-> Len(db.analyses) + 1, job_id |-> job_id,
                          resume_id |-> resume_id,
                          relevance_score |-> relevance_result.relevance_score,
                          fit_verdict |-> relevance_result.fit_verdict]
                 IN  EndpointReturned(
                         [analysis_id |-> db_analysis.id,
                          job_title |-> job.role_title,
                          student_name |-> resume.student_name,
                          relevance_score |-> relevance_result.relevance_score,
                          fit_verdict |-> relevance_result.fit_verdict],
                         [db EXCEPT !.analyses = Append(@, db_analysis)], scoring)
             scored(call) ==
                 IF call.raised THEN failed(call.error, call.self)
                 ELSE saved(call.value, call.self)
             analyzed(resume_analysis) ==
                 IF resume_analysis.raised THEN failed(resume_analysis.error, self)
                 ELSE scored(evaluate_resume_relevance(self, jd_analysis_of(job),
                                 resume.analysis,
                                 [semantic |-> 0, role |-> 0, project |-> 0]))
         IN  analyzed(analyze_resume("resume_analyzer", resume.file_path,
                                     resume.filename, resume.extracted))

\* the loop of bulk_evaluate_resumes with a failure ending the loop
RECURSIVE evaluate_each_unguarded(_, _, _, _, _)
evaluate_each_unguarded(self, db, job_id, resume_ids, acc) ==
    IF resume_ids = <<>> THEN [acc EXCEPT !.db = db, !.self = self]
    ELSE LET counted(result) ==
                 IF result.raised THEN [acc EXCEPT !.db = db, !.self = self]
                 ELSE evaluate_each_unguarded(result.self, result.db, job_id,
                          Tail(resume_ids),
                          [acc EXCEPT !.results = Append(@, result.value)])
         IN  counted(evaluate_resume_for_job(self, db, job_id, Head(resume_ids)))

\* the loop of bulk_evaluate_resumes over resume_ids: acc holds results, the
\* three counters and the lines printed for the skipped ids
RECURSIVE evaluate_each(_, _, _, _, _)
evaluate_each(self, db, job_id, resume_ids, acc) ==
    IF resume_ids = <<>> THEN [acc EXCEPT !.db = db, !.self = self]
    ELSE LET resume_id == Head(resume_ids)
             counted(result) ==
                 IF result.raised
                 THEN [acc EXCEPT !.printed =
                          Append(@, [resume_id |-> resume_id, e |-> result.error])]
                 ELSE LET verdict == result.value.fit_verdict
                      IN  [acc EXCEPT
                              !.results = Append(@, result.value),
                              !.high_fit_count =
                                  IF verdict = "High" THEN @ + 1 ELSE @,
                              !.medium_fit_count =
                                  IF verdict # "High" /\ verdict = "Medium"
                                  THEN @ + 1 ELSE @,
                              !.low_fit_count =
                                  IF verdict \notin {"High", "Medium"}
                                  THEN @ + 1 ELSE @]
             next(result) ==
                 evaluate_each(result.self, result.db, job_id, Tail(resume_ids),
                               counted(result))
         IN  next(evaluate_resume_for_job(self, db, job_id, resume_id))

\* POST /api/evaluate-bulk/{job_id}
bulk_evaluate_resumes(self, db, job_id, resume_ids) ==
    IF job_id \notin DOMAIN db.jobs
    THEN EndpointRaised(404, "Job description not found", db, self)
    ELSE LET done(acc) ==
                 [raised |-> FALSE, db |-> acc.db, self |-> acc.self,
                  printed |-> acc.printed,
                  value |-> [job_title |-> db.jobs[job_id].role_title,
                             total_processed |-> Len(acc.results),
                             high_fit_count |-> acc.high_fit_count,
                             medium_fit_count |-> acc.medium_fit_count,
                             low_fit_count |-> acc.low_fit_count,
                             results |-> acc.results]]
         IN  done(evaluate_each(self, db, job_id, resume_ids,
                    [results |-> <<>>, high_fit_count |-> 0, medium_fit_count |-> 0,
                     low_fit_count |-> 0, printed |-> <<>>, db |-> db, self |-> self]))

\* rows of job_descriptions: the columns the endpoints read, and the
\* analysis the parser makes of the job_description column
JobRows ==
    {[role_title |-> profile.role_title, company_name |-> profile.company_name,
      job_description |-> Text.dev_python,
      must_have_skills |-> must_have, good_to_have_skills |-> <<>>,
      qualifications |-> profile.qualifications,
      experience_required |-> profile.experience_required,
      parsed |-> profile] :
        profile \in JobProfiles, must_have \in {<<Raw.Python>>}}

\* rows of student_resumes: a PDF with enough text, a PDF without text and a
\* text file; analysis is what the extractors find in the text
ResumeRows ==
    {[student_name |-> Text.Dev, filename |-> file.filename,
      file_path |-> file.filename, extracted |-> file.extracted,
      analysis |-> analysis] :
        file \in {[filename |-> <<"c", "v", ".", "p", "d", "f">>,
                   extracted |-> [i \in 1..min_text_length |-> "x"]],
                  [filename |-> <<"c", "v", ".", "p", "d", "f">>, extracted |-> <<>>],
                  [filename |-> <<"c", "v", ".", "t", "x", "t">>,
                   extracted |-> [i \in 1..min_text_length |-> "x"]]},
        analysis \in {r \in ResumeAnalyses : r.resume_quality_score = 8}}

\* the databases: job 1, resumes 1 to 3, no analysis yet
Databases ==
    [jobs : [{1} -> JobRows], resumes : [{1, 2, 3} -> ResumeRows], analyses : {<<>>}]

InitBulk ==
    /\ Constructed
    /\ args \in [db : Databases, job_id : {1, 2},
                 resume_ids : SeqsUpTo({1, 2, 3, 4}, MaxResumeIds) \ {<<>>}]

\* POST /api/evaluate/{job_id}/{resume_id} for the first id of the list
EvaluateResumeForJobCall ==
    /\ op' = "evaluate_resume_for_job"
    /\ \E result \in {evaluate_resume_for_job(hybrid, args.db, args.job_id,
                                              Head(args.resume_ids))} :
          /\ ret' = result
          /\ hybrid' = result.self
    /\ UNCHANGED <<engine, args, first>>

\* POST /api/evaluate-bulk/{job_id}
BulkEvaluateResumesCall ==
    /\ op' = "bulk_evaluate_resumes"
    /\ \E result \in {bulk_evaluate_resumes(hybrid, args.db, args.job_id,
                                            args.resume_ids)} :
          /\ ret' = result
          /\ hybrid' = result.self
    /\ UNCHANGED <<engine, args, first>>

NextBulk == EvaluateResumeForJobCall \/ BulkEvaluateResumesCall

SpecBulk == InitBulk /\ [][NextBulk]_vars

\* the positions of resume_ids whose evaluation succeeds
Succeeded ==
    {i \in 1..Len(args.resume_ids) :
        ~evaluate_resume_for_job(hybrid, args.db, args.job_id,
                                 args.resume_ids[i]).raised}

(* C24: bulk_evaluate_resumes for an existing job returns a response       *)
(* whatever happens to the single ids: every id of the list is either in   *)
(* results or skipped with a printed error, and total_processed equals     *)
(* high_fit_count + medium_fit_count + low_fit_count and the number of ids *)
(* whose evaluation succeeds.                                              *)
C24_BulkIsolatesFailures ==
    (op = "bulk_evaluate_resumes" /\ args.job_id \in DOMAIN args.db.jobs) =>
        /\ ~ret.raised
        /\ Len(ret.value.results) + Len(ret.printed) = Len(args.resume_ids)
        /\ \A i \in 1..Len(args.resume_ids) :
              i \notin Succeeded =>
                  \E p \in 1..Len(ret.printed) :
                      ret.printed[p].resume_id = args.resume_ids[i]
        /\ ret.value.total_processed =
               ret.value.high_fit_count + ret.value.medium_fit_count
                   + ret.value.low_fit_count
        /\ ret.value.total_processed = Cardinality(Succeeded)

\* a bulk request whose first id is not found and whose later id fails with
\* an evaluation error has returned its response
C24_Witness ==
    /\ op = "bulk_evaluate_resumes"
    /\ ~ret.raised
    /\ Len(ret.printed) >= 2
    /\ ret.printed[1].e.status_code = 404
    /\ \E p \in 2..Len(ret.printed) : ret.printed[p].e.status_code = 500

(***************************************************************************)
(* Claim about evaluate on a resume that holds a required skill.           *)
(***************************************************************************)
\* the required skills of the job that the resume lists exactly, up to
\* normalize_skill
ExactlyHeld(job_data, resume_data) ==
    {normalize_skill(job_data.required_skills[i]) :
        i \in {k \in 1..Len(job_data.required_skills) :
                  \E j \in 1..Len(resume_data.skills) :
                      normalize_skill(resume_data.skills[j])
                          = normalize_skill(job_data.required_skills[k])}}

(* C25: when the resume's skills hold a required skill of the job exactly, *)
(* as in the sample of test_evaluation_scoring, evaluate returns that      *)
(* skill in matched_skills, with hard_match_score > 0 and                  *)
(* relevance_score > 0.                                                    *)
C25_ExactSkillScoresPositive ==
    (/\ op = "evaluate"
     /\ ExactlyHeld(args.job_data, args.resume_data) # {})
    => /\ ExactlyHeld(args.job_data, args.resume_data) \subseteq Range(ret.matched_skills)
       /\ ret.hard_match_score.n > 0
       /\ ret.relevance_score.n > 0

(***************************************************************************)
(* upload_resume of src/backend/app/routers/resumes.py.                    *)
(***************************************************************************)
max_file_size == 10 * 1024 * 1024

\* the upload settings of src/backend/app/config.py
upload_settings ==
    [max_file_size |-> max_file_size,
     allowed_extensions |-> <<<<"p", "d", "f">>, <<"d", "o", "c", "x">>>>,
     upload_dir |-> <<"u", "p", "l", "o", "a", "d", "s">>]

\* x or y
PyOr(x, y) == IF x = None \/ x = <<>> THEN y ELSE x

\* d.get(key, default)
DictGet(d, key, default) == IF key \in DOMAIN d THEN d[key] ELSE default

\* filename.split('.')[-1]
LastPart(filename) ==
    LET dots == {i \in 1..Len(filename) : filename[i] = "."}
        from == IF dots = {} THEN 0 ELSE CHOOSE i \in dots : \A j \in dots : j <= i
    IN  SubSeq(filename, from + 1, Len(filename))

\* str.title() after replacing '_' and '-' by blanks
TitleOfName(base_name) ==
    LET spaced == [i \in 1..Len(base_name) |->
                      IF base_name[i] \in {"_", "-"} THEN " " ELSE base_name[i]]
        cased(c) == LowerChar(c) # UpperChar(c)
    IN  [i \in 1..Len(spaced) |->
            IF i = 1 THEN UpperChar(spaced[i])
            ELSE IF cased(spaced[i - 1]) THEN LowerChar(spaced[i])
            ELSE UpperChar(spaced[i])]

Unknown_Candidate ==
    <<"U", "n", "k", "n", "o", "w", "n", " ", "C", "a", "n", "d", "i", "d", "a", "t", "e">>

\* upload_resume: the response or the HTTPException, and the rows of the
\* resumes table after the call; parsed is what resume_parser.parse_resume
\* does with the saved file
upload_resume(file, candidate_name, email, phone, db, parsed) ==
    IF file.filename = <<>>
    THEN EndpointRaised(400, "No file selected", db, "resume_parser")
    ELSE IF Lower(LastPart(file.filename)) \notin Range(upload_settings.allowed_extensions)
    THEN EndpointRaised(400, "File type not allowed", db, "resume_parser")
    ELSE IF file.size > upload_settings.max_file_size
    THEN EndpointRaised(400, "File too large. Maximum size is 10MB", db, "resume_parser")
    ELSE IF parsed.raised
    THEN EndpointRaised(500, <<"Failed to process resume", parsed.error>>, db,
                        "resume_parser")
    ELSE LET parsed_data == parsed.value
             contact_info == DictGet(parsed_data, "contact_info", <<>>)
             extracted_name ==
                 PyOr(candidate_name, DictGet(contact_info, "name", Unknown_Candidate))
             base_name ==
                 SubSeq(file.filename, 1,
                        Len(file.filename) - Len(splitext(file.filename)))
             final_candidate_name ==
                 IF extracted_name = Unknown_Candidate
                 THEN TitleOfName(base_name) ELSE extracted_name
             db_resume ==
                 [id |-> Len(db) + 1,
                  candidate_name |-> final_candidate_name,
                  email |-> PyOr(email, DictGet(contact_info, "email", <<>>)),
                  phone |-> PyOr(phone, DictGet(contact_info, "phone", <<>>)),
                  filename |-> file.filename,
                  extracted_text |-> DictGet(parsed_data, "text", <<>>),
                  skills |-> DictGet(parsed_data, "skills", <<>>)]
         IN  EndpointReturned([success |-> TRUE, data |-> db_resume],
                              Append(db, db_resume), "resume_parser")

\* the uploaded files: name and number of bytes
UploadedFiles ==
    [filename : Filenames \cup {<<>>, <<"j", "_", "d", ".", "p", "d", "f">>,
                                <<"r", "e", "s", "u", "m", "e", ".", "t", "x", "t">>},
     size : {0, 1024, max_file_size, max_file_size + 1}]

\* what the parser of the backend makes of a saved file: an exception, or
\* the parsed data with or without contact information
ParsedResumes ==
    {Raised("Failed to parse resume"),
     Returned([text |-> Text.dev_python, skills |-> <<Skill.python>>,
               contact_info |-> [email |-> Text.mail]]),
     Returned([text |-> Text.dev_python, skills |-> <<>>,
               contact_info |-> [name |-> Text.Dev, phone |-> <<"9", "8">>]])}

InitUpload ==
    /\ Constructed
    /\ args \in [file : UploadedFiles, candidate_name : {None, Text.Acme},
                 email : {None, Text.mail}, phone : {None},
                 parsed : ParsedResumes,
                 db : {<<>>, <<[id |-> 1, candidate_name |-> Text.Dev, email |-> <<>>,
                                 phone |-> <<>>, filename |-> <<"c", "v", ".", "p", "d", "f">>,
                                 extracted_text |-> Text.java, skills |-> <<>>]>>}]

\* POST /resumes/upload
UploadResumeCall ==
    /\ op' = "upload_resume"
    /\ ret' = upload_resume(args.file, args.candidate_name, args.email, args.phone,
                            args.db, args.parsed)
    /\ UNCHANGED <<engine, hybrid, args, first>>

\* POST /resumes/upload a second time, with the rows the first call left
UploadResumeAgainCall ==
    /\ op = "upload_resume"
    /\ op' = "upload_resume_again"
    /\ ret' = upload_resume(args.file, args.candidate_name, args.email, args.phone,
                            ret.db, args.parsed)
    /\ UNCHANGED <<engine, hybrid, args, first>>

NextUpload == UploadResumeCall \/ UploadResumeAgainCall

SpecUpload == InitUpload /\ [][NextUpload]_vars

(* C26: uploading a resume file whose name ends in .txt (of allowed size,  *)
(* which the parser can read) is accepted: upload_resume returns the       *)
(* parsed resume with its id, skills and email, and a Resume row is stored.*)
C26_TextFileAccepted ==
    (/\ op = "upload_resume"
     /\ EndsWith(args.file.filename, <<".", "t", "x", "t">>)
     /\ args.file.size <= max_file_size
     /\ ~args.parsed.raised)
    => /\ ~ret.raised
       /\ Len(ret.db) = Len(args.db) + 1
       /\ ret.value.data.id = Len(ret.db)
       /\ ret.value.data.skills = args.parsed.value.skills

(***************************************************************************)
(* The evaluations router (evaluate_resume, list_evaluations) and          *)
(* update_job of the jobs router, over the tables jobs, resumes and        *)
(* evaluations.  A query parameter is <<>> when the request leaves it out  *)
(* (None) and <<v>> when it gives the value v.                             *)
(***************************************************************************)
\* json.dumps and json.loads, on lists of strings
json_dumps(value) == <<"json", value>>

json_loads(s) == s[2]

\* job_data as evaluate_resume builds it from a jobs row
job_data_of(job) ==
    [title |-> job.title,
     description |-> job.description,
     required_skills |-> json_loads(PyOr(job.required_skills, json_dumps(<<>>))),
     preferred_skills |-> json_loads(PyOr(job.preferred_skills, json_dumps(<<>>))),
     qualifications |-> job.qualifications,
     experience_required |-> job.experience_required]

\* resume_data as evaluate_resume builds it from a resumes row
resume_data_of(resume) ==
    [text |-> resume.extracted_text,
     skills |-> json_loads(PyOr(resume.skills, json_dumps(<<>>))),
     experience |-> json_loads(PyOr(resume.experience, json_dumps(<<>>))),
     education |-> json_loads(PyOr(resume.education, json_dumps(<<>>))),
     projects |-> json_loads(PyOr(resume.projects, json_dumps(<<>>))),
     certifications |-> json_loads(PyOr(resume.certifications, json_dumps(<<>>)))]

\* the indexes of the evaluations rows of a (job_id, resume_id) pair
RowsOfPair(db, job_id, resume_id) ==
    {i \in 1..Len(db.evaluations) :
        /\ db.evaluations[i].job_id = job_id
        /\ db.evaluations[i].resume_id = resume_id}

\* the EvaluationResult made of an evaluations row
result_of_row(row) ==
    [relevance_score |-> row.relevance_score,
     hard_match_score |-> row.hard_match_score,
     semantic_match_score |-> row.semantic_match_score,
     matched_skills |-> json_loads(PyOr(row.matched_skills, json_dumps(<<>>))),
     missing_skills |-> json_loads(PyOr(row.missing_skills, json_dumps(<<>>))),
     matched_qualifications |->
         json_loads(PyOr(row.matched_qualifications, json_dumps(<<>>))),
     missing_qualifications |->
         json_loads(PyOr(row.missing_qualifications, json_dumps(<<>>))),
     suitability |-> row.suitability,
     feedback |-> row.feedback]

\* the evaluations row that evaluate_resume adds for a result of evaluate
row_of_result(db, job_id, resume_id, result) ==
    [id |-> Len(db.evaluations) + 1, job_id |-> job_id, resume_id |-> resume_id,
     relevance_score |-> result.relevance_score,
     hard_match_score |-> result.hard_match_score,
     semantic_match_score |-> result.semantic_match_score,
     matched_skills |-> json_dumps(result.matched_skills),
     missing_skills |-> json_dumps(result.missing_skills),
     matched_qualifications |-> json_dumps(result.matched_qualifications),
     missing_qualifications |-> json_dumps(result.missing_qualifications),
     suitability |-> result.suitability,
     feedback |-> result.feedback]

\* an evaluate_resume that evaluates again although a row exists
evaluate_resume_recomputing(self, db, job_id, resume_id) ==
    IF job_id \notin DOMAIN db.jobs
    THEN EndpointRaised(404, "Job not found", db, self)
    ELSE IF resume_id \notin DOMAIN db.resumes
    THEN EndpointRaised(404, "Resume not found", db, self)
    ELSE LET stored(result) ==
                 EndpointReturned(
                     [success |-> TRUE, message |-> "Resume evaluated successfully",
                      data |-> result],
                     [db EXCEPT !.evaluations =
                         Append(@, row_of_result(db, job_id, resume_id, result))],
                     self)
         IN  stored(evaluate(self, job_data_of(db.jobs[job_id]),
                             resume_data_of(db.resumes[resume_id])))

\* POST /evaluations/evaluate: the response or the HTTPException, and the
\* tables after the call
evaluate_resume(self, db, job_id, resume_id) ==
    IF job_id \notin DOMAIN db.jobs
    THEN EndpointRaised(404, "Job not found", db, self)
    ELSE IF resume_id \notin DOMAIN db.resumes
    THEN EndpointRaised(404, "Resume not found", db, self)
    ELSE IF RowsOfPair(db, job_id, resume_id) # {}
    THEN LET existing_evaluation ==
                 db.evaluations[Least(RowsOfPair(db, job_id, resume_id))]
         IN  EndpointReturned(
                 [success |-> TRUE, message |-> "Evaluation retrieved from cache",
                  data |-> result_of_row(existing_evaluation)],
                 db, self)
    ELSE LET stored(result) ==
                 EndpointReturned(
                     [success |-> TRUE, message |-> "Resume evaluated successfully",
                      data |-> result],
                     [db EXCEPT !.evaluations =
                         Append(@, row_of_result(db, job_id, resume_id, result))],
                     self)
         IN  stored(evaluate(self, job_data_of(db.jobs[job_id]),
                             resume_data_of(db.resumes[resume_id])))

\* PUT /jobs/{job_id}
update_job(db, job_id, job) ==
    IF job_id \notin DOMAIN db.jobs
    THEN EndpointRaised(404, "Job not found", db, "jobs")
    ELSE LET db_job ==
                 [title |-> job.title, company |-> job.company,
                  description |-> job.description,
                  required_skills |-> json_dumps(job.required_skills),
                  preferred_skills |-> json_dumps(job.preferred_skills),
                  qualifications |-> job.qualifications,
                  experience_required |-> job.experience_required,
                  location |-> job.location]
         IN  EndpointReturned([success |-> TRUE, data |-> db_job],
                              [db EXCEPT !.jobs[job_id] = db_job], "jobs")

\* if x: for an optional int and an optional str parameter
TruthyInt(x) == x # <<>> /\ x[1] # 0

TruthyStr(x) == x # <<>> /\ x[1] # ""

\* the orders in which ORDER BY relevance_score DESC can deliver rows: rows
\* of equal score come in any order
OrderedDesc(rows) ==
    {order \in [1..Len(rows) -> 1..Len(rows)] :
        /\ \A i, j \in 1..Len(rows) : i # j => order[i] # order[j]
        /\ \A i \in 1..(Len(rows) - 1) :
              rows[order[i]].relevance_score.n * rows[order[i + 1]].relevance_score.d
                  >= rows[order[i + 1]].relevance_score.n
                         * rows[order[i]].relevance_score.d}

\* OFFSET skip LIMIT limit of SQLite: a negative offset is 0, a negative
\* limit is no limit
OffsetLimit(rows, skip, limit) ==
    LET from == IF skip < 0 THEN 0 ELSE skip
        to == IF limit < 0 \/ from + limit > Len(rows) THEN Len(rows)
              ELSE from + limit
    IN  SubSeq(rows, from + 1, to)

\* the Evaluation that list_evaluations makes of an evaluations row
evaluation_of_row(row) ==
    [k \in DOMAIN row |->
        IF k \in {"matched_skills", "missing_skills", "matched_qualifications",
                  "missing_qualifications"}
        THEN json_loads(PyOr(row[k], json_dumps(<<>>))) ELSE row[k]]

\* GET /evaluations/: the responses it can give
list_evaluations(db, job_id, resume_id, suitability, skip, limit) ==
    LET passes(row) ==
            /\ TruthyInt(job_id) => row.job_id = job_id[1]
            /\ TruthyInt(resume_id) => row.resume_id = resume_id[1]
            /\ TruthyStr(suitability) => row.suitability = suitability[1]
        query == SelectSeq(db.evaluations, passes)
        evaluations(order) ==
            OffsetLimit([i \in 1..Len(query) |-> query[order[i]]], skip, limit)
    IN  {[success |-> TRUE,
          data |-> [i \in 1..Len(evaluations(order)) |->
                       evaluation_of_row(evaluations(order)[i])],
          total |-> Len(query)] : order \in OrderedDesc(query)}

(***************************************************************************)
(* Specification SpecEvaluations: requests to evaluate_resume, update_job  *)
(* and list_evaluations, one after the other, on a database with two jobs  *)
(* and two resumes.                                                        *)
(***************************************************************************)
\* the bodies of update_job requests for job 1, the first one being the job
\* as it was created
JobVersions ==
    {[title |-> Text.Dev, company |-> Text.Acme, description |-> Raw.Python,
      required_skills |-> required_skills, preferred_skills |-> <<>>,
      qualifications |-> Text.Bachelor_degree,
      experience_required |-> Text.years_3, location |-> <<>>] :
        required_skills \in {<<Raw.Python>>, <<Raw.SQL>>}}

\* the tables before the first request: job 1 asks for Python, job 2 for
\* Python and SQL; resume 1 has dict education entries, resume 2 plain
\* strings; nothing is evaluated yet
InitialTables ==
    LET job(required_skills) ==
            [title |-> Text.Dev, company |-> Text.Acme, description |-> Raw.Python,
             required_skills |-> json_dumps(required_skills),
             preferred_skills |-> json_dumps(<<>>),
             qualifications |-> Text.Bachelor_degree,
             experience_required |-> Text.years_3, location |-> <<>>]
        resume(education) ==
            [extracted_text |-> Text.dev_python,
             skills |-> json_dumps(<<Raw.Python>>),
             experience |-> json_dumps(<<>>), education |-> json_dumps(education),
             projects |-> None, certifications |-> json_dumps(<<>>)]
    IN  [jobs |-> [id \in {1, 2} |-> IF id = 1 THEN job(<<Raw.Python>>)
                                     ELSE job(<<Raw.Python, Raw.SQL>>)],
         resumes |-> [id \in {1, 2} |-> IF id = 1 THEN resume(<<EducationDict>>)
                                        ELSE resume(<<EducationStr>>)],
         evaluations |-> <<>>]

InitEvaluations ==
    /\ Constructed
    /\ args = [db |-> InitialTables, request |-> <<>>]

\* the pairs asked for: three that exist, a missing job, a missing resume
EvaluateRequests ==
    {[job_id |-> 1, resume_id |-> 1], [job_id |-> 1, resume_id |-> 2],
     [job_id |-> 2, resume_id |-> 1], [job_id |-> 3, resume_id |-> 1],
     [job_id |-> 1, resume_id |-> 3]}

\* POST /evaluations/evaluate?job_id=..&resume_id=..
EvaluateResumeCall ==
    /\ op' = "evaluate_resume"
    /\ \E request \in EvaluateRequests :
          \E result \in {evaluate_resume(engine, args.db, request.job_id,
                                          request.resume_id)} :
              /\ ret' = result
              /\ engine' = result.self
              /\ args' = [db |-> result.db, request |-> request]
    /\ UNCHANGED <<hybrid, first>>

\* PUT /jobs/{job_id}
UpdateJobCall ==
    /\ op' = "update_job"
    /\ \E job_id \in {1, 3}, job \in JobVersions :
          \E result \in {update_job(args.db, job_id, job)} :
              /\ ret' = result
              /\ args' = [db |-> result.db, request |-> [job_id |-> job_id, job |-> job]]
    /\ UNCHANGED <<engine, hybrid, first>>

\* the query parameters of GET /evaluations/
ListRequests ==
    {[job_id |-> job_id, resume_id |-> resume_id, suitability |-> suitability,
      skip |-> page[1], limit |-> page[2]] :
        job_id \in {<<>>, <<0>>, <<1>>}, resume_id \in {<<>>, <<1>>},
        suitability \in {<<>>, <<"">>, <<"Low">>},
        page \in {<<0, 50>>, <<0, 2>>, <<1, 1>>, <<-1, -1>>}}

\* GET /evaluations/
ListEvaluationsCall ==
    /\ op' = "list_evaluations"
    /\ \E request \in ListRequests :
          \E response \in list_evaluations(args.db, request.job_id, request.resume_id,
                               request.suitability, request.skip, request.limit) :
              /\ ret' = EndpointReturned(response, args.db, "evaluations")
              /\ args' = [db |-> args.db, request |-> request]
    /\ UNCHANGED <<engine, hybrid, first>>

NextEvaluations == EvaluateResumeCall \/ UpdateJobCall \/ ListEvaluationsCall

SpecEvaluations == InitEvaluations /\ [][NextEvaluations]_vars

(* C27: list_evaluations returns the evaluations that pass the given       *)
(* job_id / resume_id / suitability filters in non-increasing              *)
(* relevance_score order; the page is positions skip to skip + limit of    *)
(* the sorted list, and total is the number of rows that pass the filters  *)
(* whatever skip and limit are.                                            *)
C27_ListFilteredSortedPaged ==
    op = "list_evaluations" =>
        LET request == args.request
            passes(row) ==
                /\ request.job_id # <<>> => row.job_id = request.job_id[1]
                /\ request.resume_id # <<>> => row.resume_id = request.resume_id[1]
                /\ request.suitability # <<>> => row.suitability = request.suitability[1]
            passing == SelectSeq(args.db.evaluations, passes)
            data == ret.value.data
            page(order) ==
                [i \in 1..Len(passing) |-> evaluation_of_row(passing[order[i]])]
            to == IF request.skip + request.limit > Len(passing) THEN Len(passing)
                  ELSE request.skip + request.limit
        IN  /\ ret.value.total = Len(passing)
            /\ \A i \in 1..Len(data) : passes(data[i])
            /\ \A i \in 1..(Len(data) - 1) :
                  data[i].relevance_score.n * data[i + 1].relevance_score.d
                      >= data[i + 1].relevance_score.n * data[i].relevance_score.d
            /\ (request.skip >= 0 /\ request.limit >= 0) =>
                  \E order \in OrderedDesc(passing) :
                      data = SubSeq(page(order), request.skip + 1, to)

(* C30: once an evaluations row exists for a (job_id, resume_id) pair, a   *)
(* later evaluate_resume for the pair returns what the row stores and adds *)
(* no row; no request changes a stored row, and no pair ever has two rows, *)
(* whatever update_job did to the job in between and also when the row     *)
(* stores the error-fallback result.                                       *)
C30_StoredEvaluationReturned ==
    [][/\ \A i \in 1..Len(args.db.evaluations) :
             /\ Len(args'.db.evaluations) >= i
             /\ args'.db.evaluations[i] = args.db.evaluations[i]
       /\ \A request \in EvaluateRequests :
             Cardinality(RowsOfPair(args'.db, request.job_id, request.resume_id)) <= 1
       /\ (op' = "evaluate_resume" /\ ~ret'.raised) =>
             \E i \in RowsOfPair(args'.db, args'.request.job_id, args'.request.resume_id) :
                 ret'.value.data = result_of_row(args'.db.evaluations[i])
       /\ (/\ op' = "evaluate_resume"
           /\ RowsOfPair(args.db, args'.request.job_id, args'.request.resume_id) # {})
          => /\ ~ret'.raised
             /\ args'.db.evaluations = args.db.evaluations]_vars

\* evaluate_resume has answered from the stored row of a pair whose job was
\* updated since, so that evaluating now would give another score
C30_Witness ==
    /\ op = "evaluate_resume"
    /\ ~ret.raised
    /\ ret.value.message = "Evaluation retrieved from cache"
    /\ evaluate(engine, job_data_of(args.db.jobs[args.request.job_id]),
                resume_data_of(args.db.resumes[args.request.resume_id])).relevance_score
           # ret.value.data.relevance_score

C29_SuitabilityAgreesWithRounded ==
    op = "evaluate" =>
        ret.suitability =
            IF FracGe(ret.relevance_score, 70) THEN "High"
            ELSE IF FracGe(ret.relevance_score, 45) THEN "Medium"
            ELSE "Low"

====
